---- MODULE Spec2Model ----
(***************************************************************************)
(* Verification model of the uk-mountain-tours-analytics pipeline:         *)
(*   - the booking simulation engine  (src/synth/generate_bookings.py)     *)
(*   - the key-to-unit hash and route coordinates                          *)
(*                                     (src/synth/generate_routes.py,      *)
(*                                      src/ml/features_v2.py)             *)
(*   - the 2026 scoring frame and the scoring harness                      *)
(*                                     (src/ml/features*.py, predict_*.py) *)
(*                                                                         *)
(* Numbers.  TLC has 32-bit integers and no floats, so every float of the  *)
(* program is a fixed-point integer:                                       *)
(*   money        1e-4 pounds   (stored fields are cents after round(.,2)) *)
(*   percentages  1e-5          (stored fields are 1e-4 after round(.,4))  *)
(*   hash units   1e-7          (the numerator of h % 10^7 / 10^7)         *)
(*   degrees      1e-5          (the stored precision of round(.,5))       *)
(* round(x, n) is round-half-even, as Python's round and numpy's round.    *)
(* Strings whose characters matter (holiday titles, hash keys) are         *)
(* sequences of Unicode code points.                                       *)
(***************************************************************************)
EXTENDS Integers, Sequences, FiniteSets, TLC

VARIABLES
    \* ---- booking engine: inputs (the CSV tables it reads)
    routes,               \* dim_route rows, in file order
    guides,               \* dim_guide rows, in file order
    bh,                   \* dim_bank_holiday rows: [date, division, title]
    \* ---- booking engine: locals of generate_fact_bookings
    dates,                \* dim_date rows kept by _load_inputs (2024..2025)
    closed_dates_by_div,  \* division -> set of closed dates
    guide_ids,            \* guides["guide_id"].tolist()
    rows,                 \* the list of booking dicts
    booking_id,           \* the next booking id
    ri,                   \* index of the route of the outer loop
    di,                   \* index of the date of the inner loop
    pending,              \* bookings of the current route-day still to generate
    pc,                   \* position of the run
    out_fact,             \* the fact table written by to_csv (<<>> before)
    \* ---- the seeded generator np.random.default_rng(RANDOM_SEED)
    stream,               \* the calls answered so far for this seed: [call, out]
    pos,                  \* number of the next call of the current run
    run,                  \* 1 = first run, 2 = the re-run with the same seed
    first_fact,           \* the table the first run wrote
    \* ---- key-to-unit hash and _make_lat_lon
    hkey,                 \* the key of the last call (code points)
    hregion,              \* the region of the last _make_lat_lon call
    hres,                 \* results of the last call
    hpc,                  \* "idle", "hashed", "latlon" or "keyerror"
    \* ---- scoring frame and scoring harness
    dim_route,            \* dim_route rows read by the scoring frame builders
    weather,              \* the fact_weather_daily_ukmo file: [exists, rows]
    version,              \* "none", then "v1" or "v2": the harness that runs
    frame,                \* the scoring frame df26
    forecast,             \* the forecast table written by predict
    raw_preds,            \* model.predict(X), one value per frame row
    feature_cols,         \* bundle["feature_cols"], the training column list
    X,                    \* the matrix passed to model.predict
    spc,                  \* "init", "framed" or "predicted"
    \* ---- training harnesses (train_time_split, daily v2 and weekly)
    tkind,                \* "none", then "daily_v2" or "weekly"
    tframe,               \* the training frame: [has_year, rows]
    tpc,                  \* "idle", "start", "split", "fitted", "dumped",
                          \* "written" or "error"
    fitted,               \* model.fit has run
    model_file,           \* what joblib.dump wrote (<<>> before)
    metrics_file,         \* what metrics_path.write_text wrote (<<>> before)
    \* ---- closed-day resolver (_load_inputs, _build_closed_dates_by_division)
    bh_file,              \* the dim_bank_holiday.csv file: [exists, rows]
    rtable,               \* the table read_csv returned
    closed_map,           \* the mapping the resolver returned
    rpc,                  \* "idle", "start", "loaded", "resolved" or "error"
    \* ---- validation layer (validate_schema.validate)
    v_routes,             \* dim_route.csv as read: the route_id column
    v_guides,             \* dim_guide.csv as read: the guide_id column
    v_dates,              \* dim_date.csv as read: the date_key column
    v_fact,               \* fact_bookings: [columns, rows]
    vpc,                  \* "idle", the check about to run, "done" or "exit1"
    vlog,                 \* the [OK] / [WARN] / [FAIL] lines printed so far
    \* ---- orchestration (run_pipeline.run and utils.io.step)
    flags,                \* [skip_weather, skip_sql, skip_ml]
    stage,                \* index in STAGES of the last stage started (0: none)
    ppc,                  \* "idle", "between", "in_stage", "raised", "returned"
    plog,                 \* the start and end lines printed by step
    \* ---- bank-holiday dimension (clean_bank_holidays.build_dim_bank_holiday)
    raw_json,             \* the events of bank_holidays.json, in file order
    hash_secret,          \* the secret that keys hash() in the running process
    proc,                 \* number of the running Python process (0: none)
    dims,                 \* the tables built so far: [proc, rows]
    bpc,                  \* "idle", "start", "ready", "built" or "error"
    \* ---- route dimension (generate_routes.build_dim_route)
    routes_json,          \* the seed file: [state, routes]
    dr_rows,              \* the rows list of build_dim_route
    dr_out,               \* dim_route.csv as written by this run (<<>>: not)
    dr_err,               \* the exception that left build_dim_route ("": none)
    dr_pc,                \* "idle", "start", "loop", "done" or "error"
    \* ---- rollups (build_model_tables.build_route_day,
    \*               build_weekly_tables.build_route_week)
    fact_bookings,        \* fact_bookings_2024_2025.csv
    ru_dim_route,         \* dim_route.csv as both builders read it
    dd_day,               \* dim_date.csv as build_route_day reads it
    dd_week,              \* dim_date.csv as build_route_week reads it
    route_day,            \* fact_route_day_2024_2025.csv (<<>> before)
    route_week,           \* fact_route_week_2024_2025.csv (<<>> before)
    ru_pc,                \* "idle", "start", "day" or "week"
    \* ---- weather enrichment (features_v2._add_weather_features)
    wx_df,                \* the frame before enrichment
    wx_file,              \* the file at Paths.weather_daily
    wx_out,               \* the frame returned (<<>> before)
    wx_pc,                \* "idle", "start" or "done"
    \* ---- party size (generate_bookings._party_size)
    ps_difficulty,        \* the difficulty of the booked route
    ps_u,                 \* the uniform sample of rng.choice, thousandths
    ps_party,             \* the value returned (0 before)
    ps_pc,                \* "idle", "start" or "done"
    \* ---- feature frames built on the engine's output (features.py)
    ft_route_day,         \* fact_route_day_2024_2025.csv (<<>> before)
    ft_train,             \* the frame of build_training_frame (<<>> before)
    ft_score,             \* the frame of build_scoring_frame_2026 (<<>> before)
    ft_pc,                \* "idle", "day", "train" or "score"
    \* ---- files of a pipeline run (run_pipeline.run and the stage modules)
    pf_files,             \* the files under data/ and models/
    pf_cmd,               \* the command being run
    pf_start,             \* the files when the command was started
    pf_todo,              \* the stages the command has still to run
    pf_pc                 \* "idle", "import", "running", "done", "failed"
                          \* or "import_error"

engineVars == <<routes, guides, bh, dates, closed_dates_by_div, guide_ids, rows,
                booking_id, ri, di, pending, pc, out_fact, stream, pos, run,
                first_fact>>
hashVars == <<hkey, hregion, hres, hpc>>
scoreVars == <<dim_route, weather, version, frame, forecast, raw_preds,
               feature_cols, X, spc>>
trainVars == <<tkind, tframe, tpc, fitted, model_file, metrics_file>>
resolverVars == <<bh_file, rtable, closed_map, rpc>>
validateVars == <<v_routes, v_guides, v_dates, v_fact, vpc, vlog>>
pipeVars == <<flags, stage, ppc, plog>>
dimVars == <<raw_json, hash_secret, proc, dims, bpc>>
routeVars == <<routes_json, dr_rows, dr_out, dr_err, dr_pc>>
secondVars == <<trainVars, resolverVars, validateVars, pipeVars, dimVars>>
rollupVars == <<fact_bookings, ru_dim_route, dd_day, dd_week, route_day,
                route_week, ru_pc>>
wxVars == <<wx_df, wx_file, wx_out, wx_pc>>
partyVars == <<ps_difficulty, ps_u, ps_party, ps_pc>>
frameVars == <<ft_route_day, ft_train, ft_score, ft_pc>>
fileVars == <<pf_files, pf_cmd, pf_start, pf_todo, pf_pc>>
thirdVars == <<routeVars, rollupVars, wxVars, partyVars, frameVars, fileVars>>
laterVars == <<secondVars, thirdVars>>
vars == <<engineVars, hashVars, scoreVars, laterVars>>

\* the variables an action of one part of the program leaves alone
outsideEngine == <<hashVars, scoreVars, laterVars>>
outsideHash == <<engineVars, scoreVars, laterVars>>
outsideScore == <<engineVars, hashVars, laterVars>>
earlyVars == <<engineVars, hashVars, scoreVars>>
outsideTrain == <<earlyVars, resolverVars, validateVars, pipeVars, dimVars, thirdVars>>
outsideResolver == <<earlyVars, trainVars, validateVars, pipeVars, dimVars, thirdVars>>
outsideValidate == <<earlyVars, trainVars, resolverVars, pipeVars, dimVars, thirdVars>>
outsidePipe == <<earlyVars, trainVars, resolverVars, validateVars, dimVars, thirdVars>>
outsideDim == <<earlyVars, trainVars, resolverVars, validateVars, pipeVars, thirdVars>>
outsideRoute == <<earlyVars, secondVars, rollupVars, wxVars, partyVars, frameVars, fileVars>>
outsideRollup == <<earlyVars, secondVars, routeVars, wxVars, partyVars, frameVars, fileVars>>
outsideWx == <<earlyVars, secondVars, routeVars, rollupVars, partyVars, frameVars, fileVars>>
outsideParty == <<earlyVars, secondVars, routeVars, rollupVars, wxVars, frameVars, fileVars>>
outsideFrame == <<earlyVars, secondVars, routeVars, rollupVars, wxVars, partyVars, fileVars>>
outsideFile == <<earlyVars, secondVars, routeVars, rollupVars, wxVars, partyVars,
                frameVars>>

-----------------------------------------------------------------------------
(* Arithmetic helpers                                                      *)

Min(a, b) == IF a <= b THEN a ELSE b
Max(a, b) == IF a >= b THEN a ELSE b
Abs(a) == IF a < 0 THEN -a ELSE a

\* np.clip(x, lo, hi)
Clip(x, lo, hi) == Min(Max(x, lo), hi)

\* <<q, r>> with a*b = q*d + r and 0 <= r < d, for a, b >= 0 and
\* 0 < d <= 10^6, computed three decimal digits of b at a time so that no
\* intermediate value leaves 32 bits.
RECURSIVE MulDivQR(_, _, _)
MulDivQR(a, b, d) ==
    LET h == IF b < 1000 THEN <<0, 0>> ELSE MulDivQR(a, b \div 1000, d)
        r == 1000 * h[2] + (a % d) * (b % 1000)
    IN  <<1000 * h[1] + (a \div d) * (b % 1000) + (r \div d), r % d>>

\* round-half-even of q + r/d
HalfEven(q, r, d) ==
    IF 2 * r < d THEN q
    ELSE IF 2 * r > d THEN q + 1
    ELSE IF q % 2 = 0 THEN q ELSE q + 1

\* round-half-even of x / d (x of either sign): round(x, n) on a fixed-point x
RoundDiv(x, d) ==
    IF x >= 0 THEN HalfEven(x \div d, x % d, d)
    ELSE -HalfEven((-x) \div d, (-x) % d, d)

\* the float product a*b of two fixed-point numbers whose scales multiply to d
MulRound(a, b, d) == LET qr == MulDivQR(a, b, d) IN HalfEven(qr[1], qr[2], d)

-----------------------------------------------------------------------------
(* Strings as code-point sequences                                         *)

\* str.lower() / case=False on one character (ASCII letters)
LowerChar(c) == IF c >= 65 /\ c <= 90 THEN c + 32 ELSE c

Lower(s) == [i \in 1..Len(s) |-> LowerChar(s[i])]

\* title.str.contains(kw, case=False): kw occurs in s, ignoring case
ContainsNoCase(s, kw) ==
    \E i \in 1..(Len(s) - Len(kw) + 1) :
        \A j \in 1..Len(kw) : LowerChar(s[i + j - 1]) = LowerChar(kw[j])

\* x[::-1]
Reverse(s) == [i \in 1..Len(s) |-> s[Len(s) + 1 - i]]

\* x.encode("utf-8"): the byte sequence of a code-point sequence
Utf8Char(c) ==
    IF c < 128 THEN <<c>>
    ELSE IF c < 2048 THEN <<192 + (c \div 64), 128 + (c % 64)>>
    ELSE <<224 + (c \div 4096), 128 + ((c \div 64) % 64), 128 + (c % 64)>>

RECURSIVE Utf8(_)
Utf8(s) == IF s = <<>> THEN <<>> ELSE Utf8Char(Head(s)) \o Utf8(Tail(s))

-----------------------------------------------------------------------------
(* Calendar (build_dim_date)                                               *)

Date(y, m, d) == [y |-> y, m |-> m, d |-> d]

\* date comparison, as the Timestamp comparisons of the filters
DateLE(a, b) ==
    \/ a.y < b.y
    \/ a.y = b.y /\ a.m < b.m
    \/ a.y = b.y /\ a.m = b.m /\ a.d <= b.d

IsLeap(y) == (y % 4 = 0 /\ y % 100 # 0) \/ y % 400 = 0

DaysInMonth(y, m) ==
    IF m = 2 THEN (IF IsLeap(y) THEN 29 ELSE 28)
    ELSE IF m \in {4, 6, 9, 11} THEN 30 ELSE 31

RECURSIVE DaysBeforeMonth(_, _)
DaysBeforeMonth(y, m) ==
    IF m = 1 THEN 0 ELSE DaysBeforeMonth(y, m - 1) + DaysInMonth(y, m - 1)

RECURSIVE DaysBeforeYear(_)
DaysBeforeYear(y) ==
    IF y = 2024 THEN 0
    ELSE DaysBeforeYear(y - 1) + (IF IsLeap(y - 1) THEN 366 ELSE 365)

\* days since 2024-01-01, the start_date of build_dim_date
Ordinal(dt) == DaysBeforeYear(dt.y) + DaysBeforeMonth(dt.y, dt.m) + dt.d - 1

DayNames == <<"Monday", "Tuesday", "Wednesday", "Thursday", "Friday",
              "Saturday", "Sunday">>

\* strftime("%A"); 2024-01-01 is a Monday
DayName(dt) == DayNames[(Ordinal(dt) % 7) + 1]

\* int(strftime("%Y%m%d"))
DateKey(dt) == dt.y * 10000 + dt.m * 100 + dt.d

\* the number of ISO weeks of year y: 53 when it starts on a Thursday, or
\* ends on one
IsoWeeksInYear(y) ==
    LET P(n) == (n + (n \div 4) - (n \div 100) + (n \div 400)) % 7
    IN  IF P(y) = 4 \/ P(y - 1) = 3 THEN 53 ELSE 52

\* dt.isocalendar(): [year, week, day]
IsoCalendar(dt) ==
    LET wd == (Ordinal(dt) % 7) + 1
        doy == DaysBeforeMonth(dt.y, dt.m) + dt.d
        w == (doy - wd + 10) \div 7
    IN  IF w < 1 THEN [year |-> dt.y - 1, week |-> IsoWeeksInYear(dt.y - 1), day |-> wd]
        ELSE IF w > IsoWeeksInYear(dt.y) THEN [year |-> dt.y + 1, week |-> 1, day |-> wd]
        ELSE [year |-> dt.y, week |-> w, day |-> wd]

\* the season(m) closure of build_dim_date
Season(m) ==
    IF m \in {12, 1, 2} THEN "winter"
    ELSE IF m \in {3, 4, 5} THEN "spring"
    ELSE IF m \in {6, 7, 8} THEN "summer"
    ELSE "autumn"

\* The days of pd.date_range("2024-01-01", "2026-12-31") the model follows,
\* in calendar order: Easter Monday 2024, Christmas Day 2024, 2nd January
\* 2025, a summer Saturday, New Year's Day 2026, Easter Monday 2026, a
\* summer Saturday of 2026.
CalendarSample ==
    << Date(2024, 4, 1), Date(2024, 12, 25), Date(2025, 1, 2), Date(2025, 6, 14),
       Date(2026, 1, 1), Date(2026, 4, 6), Date(2026, 7, 4) >>

-----------------------------------------------------------------------------
(* Bank holidays, closed days and dimension tables                         *)

T_ChristmasDay == <<67, 104, 114, 105, 115, 116, 109, 97, 115, 32, 68, 97, 121>>
T_BoxingDay == <<66, 111, 120, 105, 110, 103, 32, 68, 97, 121>>
T_NewYear == <<78, 101, 119, 32, 89, 101, 97, 114>>
\* "New Year's Day" with the ASCII apostrophe (39)
T_NewYearsDayAscii == <<78, 101, 119, 32, 89, 101, 97, 114, 39, 115, 32, 68, 97, 121>>
\* "New Year's Day" with the typographic apostrophe (U+2019 = 8217)
T_NewYearsDayCurly == <<78, 101, 119, 32, 89, 101, 97, 114, 8217, 115, 32, 68, 97, 121>>
T_GoodFriday == <<71, 111, 111, 100, 32, 70, 114, 105, 100, 97, 121>>
T_EasterMonday == <<69, 97, 115, 116, 101, 114, 32, 77, 111, 110, 100, 97, 121>>
\* "2nd January", a Scottish bank holiday that matches no keyword
T_SecondJanuary == <<50, 110, 100, 32, 74, 97, 110, 117, 97, 114, 121>>

CLOSED_HOLIDAY_KEYWORDS ==
    << T_ChristmasDay, T_BoxingDay, T_NewYear, T_NewYearsDayAscii,
       T_NewYearsDayCurly, T_GoodFriday, T_EasterMonday >>

DefaultDivision == "england-and-wales"

Event(dt, division, title) == [date |-> dt, division |-> division, title |-> title]

\* A dim_bank_holiday table over the days of CalendarSample, sorted by date,
\* division, title as build_dim_bank_holiday writes it.  Easter Monday is a
\* bank holiday in england-and-wales and northern-ireland only; 2nd January
\* in scotland only.
HolidaysUK ==
    << Event(Date(2024, 4, 1), "england-and-wales", T_EasterMonday),
       Event(Date(2024, 4, 1), "northern-ireland", T_EasterMonday),
       Event(Date(2024, 12, 25), "england-and-wales", T_ChristmasDay),
       Event(Date(2024, 12, 25), "scotland", T_ChristmasDay),
       Event(Date(2025, 1, 2), "scotland", T_SecondJanuary),
       Event(Date(2026, 1, 1), "england-and-wales", T_NewYearsDayCurly),
       Event(Date(2026, 1, 1), "scotland", T_NewYearsDayCurly),
       Event(Date(2026, 4, 6), "england-and-wales", T_EasterMonday) >>

\* d.get(k, default)
DictGet(f, k, default) == IF k \in DOMAIN f THEN f[k] ELSE default

\* the rows of a table (a sequence) as a set
Range(s) == { s[i] : i \in 1..Len(s) }

BuildClosedDatesAllDivisions(table) ==
    LET closed == { e \in Range(table) :
                      \E k \in 1..Len(CLOSED_HOLIDAY_KEYWORDS) :
                          ContainsNoCase(e.title, CLOSED_HOLIDAY_KEYWORDS[k]) }
    IN  [ dv \in { e.division : e \in closed } |-> { e.date : e \in closed } ]

\* _build_closed_dates_by_division: division -> set of dates whose title
\* contains one of the keywords, ignoring case
BuildClosedDatesByDivision(table) ==
    LET closed == { e \in Range(table) :
                      \E k \in 1..Len(CLOSED_HOLIDAY_KEYWORDS) :
                          ContainsNoCase(e.title, CLOSED_HOLIDAY_KEYWORDS[k]) }
    IN  [ dv \in { e.division : e \in closed } |->
            { e.date : e \in { x \in closed : x.division = dv } } ]

\* build_dim_region_division: the fixed region -> division table
RegionDivision ==
    << [region |-> "lake_district", division |-> "england-and-wales"],
       [region |-> "peak_district", division |-> "england-and-wales"],
       [region |-> "wales", division |-> "england-and-wales"],
       [region |-> "scotland", division |-> "scotland"] >>

\* dict(zip(region_div["region"], region_div["division"])): the last row of a
\* region wins
RegionToDiv ==
    [ r \in { x.region : x \in Range(RegionDivision) } |->
        LET last == CHOOSE i \in 1..Len(RegionDivision) :
                       /\ RegionDivision[i].region = r
                       /\ \A j \in (i + 1)..Len(RegionDivision) :
                              RegionDivision[j].region # r
        IN  RegionDivision[last].division ]

\* the dates of the bank-holiday events of one division
HolidayDates(table, division) ==
    { e.date : e \in { x \in Range(table) : x.division = division } }

\* one row of dim_date
DimDateRow(dt, table) ==
    [ date |-> dt,
      date_key |-> DateKey(dt),
      year |-> dt.y,
      month |-> dt.m,
      day |-> dt.d,
      day_name |-> DayName(dt),
      iso_year |-> IsoCalendar(dt).year,
      iso_week |-> IsoCalendar(dt).week,
      is_weekend |-> DayName(dt) \in {"Saturday", "Sunday"},
      season |-> Season(dt.m),
      is_bank_holiday_england_wales |-> dt \in HolidayDates(table, "england-and-wales"),
      is_bank_holiday_scotland |-> dt \in HolidayDates(table, "scotland"),
      is_bank_holiday_northern_ireland |-> dt \in HolidayDates(table, "northern-ireland"),
      is_bank_holiday_any |-> \/ dt \in HolidayDates(table, "england-and-wales")
                              \/ dt \in HolidayDates(table, "scotland")
                              \/ dt \in HolidayDates(table, "northern-ireland") ]

\* build_dim_date: one row per calendar day, flagged from the bank holidays
BuildDimDate(table) ==
    [ i \in 1..Len(CalendarSample) |-> DimDateRow(CalendarSample[i], table) ]

Route(id, region, difficulty, distance10, duration10) ==
    [ route_id |-> id, region |-> region, difficulty |-> difficulty,
      distance_km |-> distance10, duration_hours |-> duration10 ]

\* Route rows; distance_km and duration_hours in tenths.  Route 3 has a
\* region outside the region -> division table and a difficulty outside the
\* four known ones.
RouteScafell == Route(1, "lake_district", "moderate", 120, 60)
RouteBenNevis == Route(2, "scotland", "hard", 170, 85)
RouteOther == Route(3, "pennines", "extreme", 80, 30)

\* dim_route tables, sorted by route_id as build_dim_route writes them
RoutesUK == <<RouteScafell, RouteBenNevis>>

Guide(id) == [ guide_id |-> id ]

\* dim_guide tables, sorted by guide_id as build_dim_guide writes them
GuidesUK == <<Guide(7), Guide(9)>>

\* The tables <<dim_route, dim_guide, dim_bank_holiday>> the engine runs
\* start from: the UK tables; a route of an unmapped region with no bank
\* holidays on file; an empty route table; an empty guide table.
EngineInputs ==
    { <<RoutesUK, GuidesUK, HolidaysUK>>,
      <<<<RouteOther>>, GuidesUK, <<>>>>,
      <<<<>>, GuidesUK, HolidaysUK>>,
      <<RoutesUK, <<>>, HolidaysUK>> }

-----------------------------------------------------------------------------
(* Booking simulation engine: sampling helpers                             *)

\* config.py: VAT_RATE = 0.20, in percent
VAT_RATE == 20
\* config.py: RANDOM_SEED
RANDOM_SEED == 42

\* Demand uplifts, in twentieths (1.00 = 20)
REGION_UPLIFT ==
    [ r \in {"lake_district", "wales", "peak_district", "scotland"} |->
        CASE r = "lake_district" -> 27
          [] r = "wales" -> 23
          [] r = "peak_district" -> 20
          [] r = "scotland" -> 18 ]

SEASON_UPLIFT ==
    [ s \in {"winter", "spring", "summer", "autumn"} |->
        CASE s = "winter" -> 26
          [] s = "spring" -> 20
          [] s = "summer" -> 17
          [] s = "autumn" -> 22 ]

DIFFICULTY_UPLIFT ==
    [ d \in {"easy", "moderate", "hard", "severe"} |->
        CASE d = "easy" -> 24
          [] d = "moderate" -> 20
          [] d = "hard" -> 18
          [] d = "severe" -> 15 ]

WEEKEND_UPLIFT == 24
BANK_HOLIDAY_OPEN_UPLIFT == 28

\* _expected_bookings_per_route_day, in units of 1/20^6 (the product of six
\* factors in twentieths): clip(mu, 0.05, 3.0)
ExpectedBookingsPerRouteDay(region, season, difficulty, is_weekend, is_bank_holiday_open) ==
    LET mu == 11 * DictGet(REGION_UPLIFT, region, 20)
                 * DictGet(SEASON_UPLIFT, season, 20)
                 * DictGet(DIFFICULTY_UPLIFT, difficulty, 20)
                 * (IF is_weekend THEN WEEKEND_UPLIFT ELSE 20)
                 * (IF is_bank_holiday_open THEN BANK_HOLIDAY_OPEN_UPLIFT ELSE 20)
    IN  Clip(mu, 3200000, 192000000)

\* the branch of _party_size a difficulty takes ("else" is the severe table)
PartyTable(difficulty) ==
    IF difficulty \in {"easy", "moderate", "hard"} THEN difficulty ELSE "severe"

\* the probability table of _party_size for sizes 1..6, in hundredths
PartyProbs(difficulty) ==
    IF PartyTable(difficulty) = "easy" THEN <<10, 25, 25, 20, 12, 8>>
    ELSE IF PartyTable(difficulty) = "moderate" THEN <<15, 28, 25, 17, 10, 5>>
    ELSE IF PartyTable(difficulty) = "hard" THEN <<22, 33, 23, 13, 7, 2>>
    ELSE <<30, 38, 20, 8, 3, 1>>

RECURSIVE CumSum(_, _)
CumSum(p, k) == IF k = 0 THEN 0 ELSE CumSum(p, k - 1) + p[k]

PartySizeZeroBased(difficulty, u) ==
    Cardinality({ k \in 1..6 : CumSum(PartyProbs(difficulty), k) * 10 <= u })

\* _party_size: rng.choice(np.arange(1, 7), p=probs) on the uniform sample u
\* (thousandths) that choice draws: searchsorted(cdf, u, side="right")
PartySize(difficulty, u) ==
    LET probs == PartyProbs(difficulty)
    IN  1 + Cardinality({ k \in 1..6 : CumSum(probs, k) * 10 <= u })

\* _discount_flag_and_pct: the flag, from the rng.random() sample u (hundredths)
DiscountFlag(party_size, season, is_weekend, u) ==
    LET base_prob == 10 + (IF party_size >= 4 THEN 10 ELSE 0)
                        + (IF season = "summer" THEN 5 ELSE 0)
                        + (IF ~is_weekend THEN 3 ELSE 0)
    IN  u < Min(base_prob, 35)

\* the difficulty premium of _price_per_person_ex_vat, in hundredths
DiffMult(difficulty) ==
    IF difficulty = "easy" THEN 95
    ELSE IF difficulty = "moderate" THEN 100
    ELSE IF difficulty = "hard" THEN 110
    ELSE IF difficulty = "severe" THEN 120
    ELSE 100

\* _price_per_person_ex_vat in 1e-4 pounds, from duration_hours (tenths) and
\* the rng.normal(1.0, 0.06) noise (1e-4): clip(base*diff_mult*noise, 60, 190)
PricePerPersonExVat(duration_hours, difficulty, noise) ==
    LET base == 750 + duration_hours * 8
    IN  Clip(MulRound(base * DiffMult(difficulty), noise, 1000), 600000, 1900000)

\* the economies-of-scale term of _margin_pct, in 1e-5
ScaleBonus(party_size) == Min(Max(party_size - 2, 0) * 800, 3000)

\* _margin_pct without its final clamp
MarginPctUnclamped(discount_flag, party_size, m, redux) ==
    (IF discount_flag THEN m - redux ELSE m) + ScaleBonus(party_size)

\* _margin_pct in 1e-5, from the uniform(0.30, 0.50) draw m and the
\* uniform(0.03, 0.08) draw redux: clip(m, 0.30, 0.50)
MarginPct(discount_flag, party_size, m, redux) ==
    LET m1 == IF discount_flag THEN m - redux ELSE m
    IN  Clip(m1 + ScaleBonus(party_size), 30000, 50000)

\* staff_share: clip(rng.normal(0.62, 0.06), 0.50, 0.75), in 1e-4
StaffShare(draw) == Clip(draw, 5000, 7500)

\* rng.choice(guide_ids) on the uniform sample u (thousandths): the element
\* at index floor(u * n)
GuideIndex(n, u) == ((u * n) \div 1000) + 1

-----------------------------------------------------------------------------
(* Booking simulation engine: the seeded generator                         *)

\* largest booking count a Poisson draw returns in the model
MaxPoisson == 2
\* largest number of bookings one run generates in the model
MaxRows == 2

\* one answered call of the generator
Call(fn, a, b, out) == [fn |-> fn, a |-> a, b |-> b, out |-> out]

\* a generator seeded afresh on every run instead of with the fixed seed
RunSeedFromRun(r) == RANDOM_SEED + r

\* the seed a run gives its generator: np.random.default_rng(RANDOM_SEED)
RunSeed(r) == RANDOM_SEED

\* Call number k of the current run is one the generator of this seed has
\* already answered: a generator with the same seed, asked the same calls,
\* returns the same values.
Replayed(k, c) ==
    /\ RunSeed(run) = RunSeed(1)
    /\ k <= Len(stream)
    /\ stream[k].fn = c.fn /\ stream[k].a = c.a /\ stream[k].b = c.b

\* the calls cs, made from call number pos on, agree with the generator
Agrees(cs) ==
    \A j \in 1..Len(cs) :
        Replayed(pos + j - 1, cs[j]) => stream[pos + j - 1].out = cs[j].out

\* the answered calls after cs
Recorded(cs) ==
    IF /\ pos + Len(cs) - 1 <= Len(stream)
       /\ \A j \in 1..Len(cs) : stream[pos + j - 1] = cs[j]
    THEN stream
    ELSE SubSeq(stream, 1, pos - 1) \o cs

\* The joint samples of the draws of one booking that the model follows:
\*   uParty  uniform sample of the party-size choice      (thousandths)
\*   uDisc   rng.random() of the discount flag            (hundredths)
\*   pct     rng.uniform(0.05, 0.20)                      (1e-5)
\*   noise   rng.normal(1.0, 0.06)                        (1e-4)
\*   m       rng.uniform(0.30, 0.50)                      (1e-5)
\*   redux   rng.uniform(0.03, 0.08)                      (1e-5)
\*   share   rng.normal(0.62, 0.06)                       (1e-4)
\*   uGuide  uniform sample of the guide choice           (thousandths)
\* The first set takes the margin draws at the ends of their ranges, with
\* and without a discount; the second the price, discount and staff-share
\* draws across theirs.
BookingDraws ==
    { [uParty |-> x[1], uDisc |-> x[2], pct |-> 12345, noise |-> 10000, m |-> x[3],
       redux |-> x[4], share |-> 6200, uGuide |-> 0] :
        x \in { <<50, 5, 30000, 7999>>, <<50, 30, 30000, 7999>>,
                <<995, 5, 49999, 3000>>, <<995, 30, 49999, 3000>> } }
    \cup
    { [uParty |-> 800, uDisc |-> 12, pct |-> x[1], noise |-> x[2], m |-> 41235,
       redux |-> 3000, share |-> x[3], uGuide |-> 999] :
        x \in { <<5000, 4000, 3000>>, <<12345, 10638, 6200>>, <<19999, 20000, 9000>> } }

-----------------------------------------------------------------------------
(* Booking simulation engine: generate_fact_bookings                       *)

\* _load_inputs: the dim_date rows of 2024 and 2025
LoadDates(table) ==
    SelectSeq(BuildDimDate(table),
              LAMBDA d : DateLE(Date(2024, 1, 1), d.date) /\ DateLE(d.date, Date(2025, 12, 31)))

\* division = region_to_div.get(region, "england-and-wales")
DivisionOf(region) == DictGet(RegionToDiv, region, DefaultDivision)

\* a lookup that spells the default division as the dim_date columns do
\* ("england_wales"), a key the resolver never produces
ClosedDatesColumnKey(division) ==
    DictGet(closed_dates_by_div,
            IF division = "england-and-wales" THEN "england_wales" ELSE division, {})

\* closed_dates = closed_dates_by_div.get(division, set())
ClosedDates(division) == DictGet(closed_dates_by_div, division, {})

IsBankHolidayEnglandWales(division, d) == d.is_bank_holiday_england_wales

\* the division-aware bank-holiday flag read from the dim_date row
IsBankHoliday(division, d) ==
    IF division = "scotland" THEN d.is_bank_holiday_scotland
    ELSE IF division = "northern-ireland" THEN d.is_bank_holiday_northern_ireland
    ELSE d.is_bank_holiday_england_wales

\* the closure test of the inner loop: dt in closed_dates
IsClosed(division, dt) == dt \in ClosedDates(division)

\* a booking id that is not advanced
NextBookingIdStuck(id) == id

\* the value booking_id takes after a booking is appended
NextBookingId(id) == id + 1

\* a date key formatted "%Y%d%m"
BookingDateKeyDayFirst(dt) == dt.y * 10000 + dt.d * 100 + dt.m

\* the date_key field of a booking: int(pd.Timestamp(dt).strftime("%Y%m%d"))
BookingDateKey(dt) == DateKey(dt)

\* VAT taken as the VAT share of a gross amount: sales * rate / (1 + rate)
VatAmountOfGross(sales_ex_vat) == (sales_ex_vat * VAT_RATE * 5) \div 6

\* vat_amount = sales_ex_vat * VAT_RATE, in 1e-6 pounds
VatAmount(sales_ex_vat) == sales_ex_vat * VAT_RATE

\* the booking dict appended to rows (money in cents, percentages in 1e-4,
\* duration_hours in hundredths)
BookingRow(id, rt, d, division, dr) ==
    LET party == PartySize(rt.difficulty, dr.uParty)
        discount_flag == DiscountFlag(party, d.season, d.is_weekend, dr.uDisc)
        discount_pct == IF discount_flag THEN dr.pct ELSE 0
        ppp == PricePerPersonExVat(rt.duration_hours, rt.difficulty, dr.noise)
        list_value_ex_vat == ppp * party
        discount_value == IF discount_flag
                          THEN MulRound(list_value_ex_vat, discount_pct, 100000)
                          ELSE 0
        sales_ex_vat == Max(list_value_ex_vat - discount_value, 0)
        margin_pct == MarginPct(discount_flag, party, dr.m, dr.redux)
        margin_amount == MulRound(sales_ex_vat, margin_pct, 100000)
        total_cost == Max(sales_ex_vat - margin_amount, 0)
        staff_cost == MulRound(total_cost, StaffShare(dr.share), 10000)
        \* vat_amount and sales_ex_vat + vat_amount, in 1e-6 pounds
        vat_amount == VatAmount(sales_ex_vat)
        sales_inc_vat == sales_ex_vat * 100 + vat_amount
    IN  [ booking_id |-> id,
          booking_date |-> d.date,
          date_key |-> BookingDateKey(d.date),
          route_id |-> rt.route_id,
          region |-> rt.region,
          guide_id |-> guide_ids[GuideIndex(Len(guide_ids), dr.uGuide)],
          party_size |-> party,
          difficulty |-> rt.difficulty,
          duration_hours |-> rt.duration_hours * 10,
          discount_flag |-> IF discount_flag THEN 1 ELSE 0,
          discount_pct |-> RoundDiv(discount_pct, 10),
          price_per_person_ex_vat |-> RoundDiv(ppp, 100),
          sales_ex_vat |-> RoundDiv(sales_ex_vat, 100),
          vat_amount |-> RoundDiv(vat_amount, 10000),
          sales_inc_vat |-> RoundDiv(sales_inc_vat, 10000),
          staff_cost |-> RoundDiv(staff_cost, 100),
          margin_amount |-> RoundDiv(margin_amount, 100),
          margin_pct |-> RoundDiv(margin_pct, 10),
          season |-> d.season,
          is_weekend |-> IF d.is_weekend THEN 1 ELSE 0,
          is_bank_holiday |-> IF IsBankHoliday(division, d) THEN 1 ELSE 0,
          holiday_division |-> division ]

\* the generator calls one booking makes, in program order
BookingCalls(rt, d, dr) ==
    LET party == PartySize(rt.difficulty, dr.uParty)
        flag == DiscountFlag(party, d.season, d.is_weekend, dr.uDisc)
    IN  << Call("choice_p", PartyTable(rt.difficulty), 6, dr.uParty),
           Call("random", 0, 0, dr.uDisc) >>
        \o (IF flag THEN << Call("uniform", 5000, 20000, dr.pct) >> ELSE <<>>)
        \o << Call("normal", 10000, 600, dr.noise),
              Call("uniform", 30000, 50000, dr.m) >>
        \o (IF flag THEN << Call("uniform", 3000, 8000, dr.redux) >> ELSE <<>>)
        \o << Call("normal", 6200, 600, dr.share),
              Call("choice", Len(guide_ids), 0, dr.uGuide) >>

engineInputs == <<routes, guides, bh>>
rerunVars == <<run, first_fact>>

InitEngine ==
    /\ \E inp \in EngineInputs :
          routes = inp[1] /\ guides = inp[2] /\ bh = inp[3]
    /\ dates = <<>>
    /\ closed_dates_by_div = <<>>
    /\ guide_ids = <<>>
    /\ rows = <<>>
    /\ booking_id = 1
    /\ ri = 1
    /\ di = 1
    /\ pending = 0
    /\ pc = "start"
    /\ out_fact = <<>>
    /\ stream = <<>>
    /\ pos = 1
    /\ run = 1
    /\ first_fact = <<>>

\* generate_fact_bookings up to the loops: seed the generator, load the
\* inputs, resolve the closed days
LoadInputs ==
    /\ pc = "start"
    /\ dates' = LoadDates(bh)
    /\ closed_dates_by_div' = BuildClosedDatesByDivision(bh)
    /\ guide_ids' = [ i \in 1..Len(guides) |-> guides[i].guide_id ]
    /\ rows' = <<>>
    /\ booking_id' = 1
    /\ ri' = 1
    /\ di' = 1
    /\ pending' = 0
    /\ pos' = 1
    /\ pc' = "loop"
    /\ UNCHANGED <<engineInputs, out_fact, stream, rerunVars, outsideEngine>>

\* the loops are at a route-day
AtRouteDay == pc = "loop" /\ ri <= Len(routes) /\ di <= Len(dates)

\* the loops move to the next date of the route, or to the next route
NextRouteDay ==
    IF di < Len(dates)
    THEN ri' = ri /\ di' = di + 1
    ELSE ri' = ri + 1 /\ di' = 1

\* "if dt in closed_dates: continue"
SkipClosedDay ==
    /\ AtRouteDay
    /\ pending = 0
    /\ IsClosed(DivisionOf(routes[ri].region), dates[di].date)
    /\ NextRouteDay
    /\ UNCHANGED <<engineInputs, dates, closed_dates_by_div, guide_ids, rows,
                   booking_id, pending, pc, out_fact, stream, pos, rerunVars, outsideEngine>>

\* an open route-day: n = int(rng.poisson(mu)); "if n <= 0: continue"
DrawBookingCount ==
    /\ AtRouteDay
    /\ pending = 0
    /\ LET rt == routes[ri]
           d == dates[di]
           division == DivisionOf(rt.region)
           mu == ExpectedBookingsPerRouteDay(rt.region, d.season, rt.difficulty,
                                             d.is_weekend, IsBankHoliday(division, d))
       IN  /\ ~IsClosed(division, d.date)
           /\ \E n \in 0..Min(MaxPoisson, MaxRows - Len(rows)) :
                LET cs == << Call("poisson", mu, 0, n) >>
                IN  /\ Agrees(cs)
                    /\ stream' = Recorded(cs)
                    /\ pos' = pos + 1
                    /\ IF n <= 0
                       THEN pending' = 0 /\ NextRouteDay
                       ELSE pending' = n /\ ri' = ri /\ di' = di
    /\ UNCHANGED <<engineInputs, dates, closed_dates_by_div, guide_ids, rows,
                   booking_id, pc, out_fact, rerunVars, outsideEngine>>

\* one pass of "for _ in range(n)": draw, derive and append one booking
GenerateBooking ==
    /\ AtRouteDay
    /\ pending > 0
    /\ guide_ids # <<>>
    /\ LET rt == routes[ri]
           d == dates[di]
           division == DivisionOf(rt.region)
       IN  \E dr \in BookingDraws :
             LET cs == BookingCalls(rt, d, dr)
             IN  /\ Agrees(cs)
                 /\ stream' = Recorded(cs)
                 /\ pos' = pos + Len(cs)
                 /\ rows' = Append(rows, BookingRow(booking_id, rt, d, division, dr))
    /\ booking_id' = NextBookingId(booking_id)
    /\ pending' = pending - 1
    /\ IF pending = 1 THEN NextRouteDay ELSE ri' = ri /\ di' = di
    /\ UNCHANGED <<engineInputs, dates, closed_dates_by_div, guide_ids, pc,
                   out_fact, rerunVars, outsideEngine>>

\* rng.choice(guide_ids) on an empty roster raises: the run stops, nothing
\* is written
GuideChoiceFails ==
    /\ AtRouteDay
    /\ pending > 0
    /\ guide_ids = <<>>
    /\ pc' = "error"
    /\ UNCHANGED <<engineInputs, dates, closed_dates_by_div, guide_ids, rows,
                   booking_id, ri, di, pending, out_fact, stream, pos, rerunVars, outsideEngine>>

\* after the loops: fact = pd.DataFrame(rows); fact.to_csv(out_fact)
WriteFact ==
    /\ pc = "loop"
    /\ ~AtRouteDay
    /\ out_fact' = rows
    /\ pc' = "done"
    /\ UNCHANGED <<engineInputs, dates, closed_dates_by_div, guide_ids, rows,
                   booking_id, ri, di, pending, stream, pos, rerunVars, outsideEngine>>

\* the engine is run again, same inputs, same seed
Rerun ==
    /\ pc = "done"
    /\ run = 1
    /\ run' = 2
    /\ first_fact' = out_fact
    /\ pc' = "start"
    /\ out_fact' = <<>>
    /\ UNCHANGED <<engineInputs, dates, closed_dates_by_div, guide_ids, rows,
                   booking_id, ri, di, pending, stream, pos, outsideEngine>>

InitHashIdle ==
    /\ hkey = <<>>
    /\ hregion = ""
    /\ hres = <<>>
    /\ hpc = "idle"

InitScoreIdle ==
    /\ dim_route = <<>>
    /\ weather = <<>>
    /\ version = "none"
    /\ frame = <<>>
    /\ forecast = <<>>
    /\ raw_preds = <<>>
    /\ feature_cols = <<>>
    /\ X = <<>>
    /\ spc = "init"

InitTrainIdle ==
    /\ tkind = "none"
    /\ tframe = [has_year |-> TRUE, rows |-> <<>>]
    /\ tpc = "idle"
    /\ fitted = FALSE
    /\ model_file = <<>>
    /\ metrics_file = <<>>

InitResolverIdle ==
    /\ bh_file = [exists |-> FALSE, rows |-> <<>>]
    /\ rtable = <<>>
    /\ closed_map = <<>>
    /\ rpc = "idle"

InitValidateIdle ==
    /\ v_routes = <<>>
    /\ v_guides = <<>>
    /\ v_dates = <<>>
    /\ v_fact = [columns |-> {}, rows |-> <<>>]
    /\ vpc = "idle"
    /\ vlog = <<>>

InitPipeIdle ==
    /\ flags = [skip_weather |-> FALSE, skip_sql |-> FALSE, skip_ml |-> FALSE]
    /\ stage = 0
    /\ ppc = "idle"
    /\ plog = <<>>

InitDimIdle ==
    /\ raw_json = <<>>
    /\ hash_secret = 0
    /\ proc = 0
    /\ dims = <<>>
    /\ bpc = "idle"

InitRouteIdle ==
    /\ routes_json = [state |-> "missing", routes |-> <<>>]
    /\ dr_rows = <<>>
    /\ dr_out = <<>>
    /\ dr_err = ""
    /\ dr_pc = "idle"

InitRollupIdle ==
    /\ fact_bookings = <<>>
    /\ ru_dim_route = <<>>
    /\ dd_day = <<>>
    /\ dd_week = <<>>
    /\ route_day = <<>>
    /\ route_week = <<>>
    /\ ru_pc = "idle"

InitWxIdle ==
    /\ wx_df = <<>>
    /\ wx_file = [exists |-> FALSE, rows |-> <<>>]
    /\ wx_out = <<>>
    /\ wx_pc = "idle"

InitPartyIdle ==
    /\ ps_difficulty = ""
    /\ ps_u = 0
    /\ ps_party = 0
    /\ ps_pc = "idle"

InitFrameIdle ==
    /\ ft_route_day = <<>>
    /\ ft_train = <<>>
    /\ ft_score = <<>>
    /\ ft_pc = "idle"

\* config.SeedFiles: the seed files under data/raw; nothing else is there
SEED_FILES == {"raw/routes.json", "raw/guides.json"}

NoFlags == [skip_weather |-> FALSE, skip_sql |-> FALSE, skip_ml |-> FALSE]

InitFileIdle ==
    /\ pf_files = SEED_FILES
    /\ pf_cmd = [kind |-> "none", flags |-> NoFlags, stage |-> 0]
    /\ pf_start = SEED_FILES
    /\ pf_todo = <<>>
    /\ pf_pc = "idle"

InitThirdIdle ==
    /\ InitRouteIdle /\ InitRollupIdle /\ InitWxIdle /\ InitPartyIdle
    /\ InitFrameIdle /\ InitFileIdle

InitLaterIdle ==
    /\ InitTrainIdle
    /\ InitResolverIdle
    /\ InitValidateIdle
    /\ InitPipeIdle
    /\ InitDimIdle
    /\ InitThirdIdle

Init == InitEngine /\ InitHashIdle /\ InitScoreIdle /\ InitLaterIdle

Next ==
    \/ LoadInputs
    \/ SkipClosedDay
    \/ DrawBookingCount
    \/ GenerateBooking
    \/ GuideChoiceFails
    \/ WriteFact

Spec == Init /\ [][Next]_vars

NextRerun == Next \/ Rerun

SpecRerun == Init /\ [][NextRerun]_vars

-----------------------------------------------------------------------------
(* Key-to-unit hash (generate_routes._stable_hash_to_unit,                 *)
(* features_v2._stable_unit) and route coordinates (_make_lat_lon)         *)
(*                                                                         *)
(* A 32-bit hash value is a pair <<hi, lo>> of 16-bit limbs, and Python's  *)
(* unbounded product h * 16777619 is a sequence of four limbs, lowest      *)
(* first, so that no intermediate value leaves 32 bits.                    *)

Limb == 65536

\* h = 2166136261  (0x811C9DC5)
FnvOffsetBasis == <<33052, 40389>>

\* 16777619  (0x01000193)
FnvPrime == <<256, 403>>

\* the modulus of "h % 10_000_000" and the divisor of "/ 10_000_000.0"
UnitScale == 10000000

\* a ^ b on the lowest n bits
RECURSIVE XorBits(_, _, _)
XorBits(a, b, n) ==
    IF n = 0 THEN 0
    ELSE ((a + b) % 2) + 2 * XorBits(a \div 2, b \div 2, n - 1)

\* h ^= ch, for a byte ch
XorByte(h, ch) == <<h[1], (h[2] \div 256) * 256 + XorBits(h[2] % 256, ch, 8)>>

\* h * p as an unbounded integer: limbs <<l0, l1, l2, l3>>, lowest first
MulWide(h, p) ==
    LET p0 == h[2] * p[2]
        p1 == h[1] * p[2] + h[2] * p[1] + (p0 \div Limb)
        p2 == h[1] * p[1] + (p1 \div Limb)
    IN  <<p0 % Limb, p1 % Limb, p2 % Limb, p2 \div Limb>>

\* w & 0xFFFFFFFF
Mask32(w) == <<w[2], w[1]>>

\* h % 10_000_000
ModUnit(h) == (((h[1] * 4096) % UnitScale) * 16 + h[2]) % UnitScale

\* one pass of the loop with the multiplication before the xor (FNV-1, not
\* FNV-1a)
FnvStepMulFirst(h, ch) == XorByte(Mask32(MulWide(h, FnvPrime)), ch)

\* one pass of the loop of _stable_hash_to_unit:
\*   h ^= ch; h *= 16777619; h &= 0xFFFFFFFF
FnvStep(h, ch) == Mask32(MulWide(XorByte(h, ch), FnvPrime))

\* one pass of the loop of _stable_unit:  h ^= b; h = (h * 16777619) & 0xFFFFFFFF
FnvStepUnit(h, b) ==
    LET x == XorByte(h, b)
    IN  Mask32(MulWide(x, FnvPrime))

\* "for ch in x.encode("utf-8")": after each pass h is a 32-bit value
RECURSIVE HashBytes(_, _)
HashBytes(h, bytes) ==
    IF bytes = <<>> THEN h
    ELSE LET n == FnvStep(h, Head(bytes))
         IN  CASE n[1] < Limb /\ n[2] < Limb -> HashBytes(n, Tail(bytes))

\* "for b in seed.encode("utf-8")", likewise
RECURSIVE HashBytesUnit(_, _)
HashBytesUnit(h, bytes) ==
    IF bytes = <<>> THEN h
    ELSE LET n == FnvStepUnit(h, Head(bytes))
         IN  CASE n[1] < Limb /\ n[2] < Limb -> HashBytesUnit(n, Tail(bytes))

\* generate_routes._stable_hash_to_unit(x): the numerator of the returned
\* float (h % 10_000_000) / 10_000_000.0
StableHashToUnit(x) == ModUnit(HashBytes(FnvOffsetBasis, Utf8(x)))

\* features_v2._stable_unit(seed), likewise
StableUnit(seed) == ModUnit(HashBytesUnit(FnvOffsetBasis, Utf8(seed)))

\* config.REGION_BOUNDS, in 1e-5 degrees
REGION_BOUNDS ==
    [ lake_district |-> [lat_min |-> 5435000, lat_max |-> 5470000,
                         lon_min |-> -335000, lon_max |-> -280000],
      wales         |-> [lat_min |-> 5155000, lat_max |-> 5335000,
                         lon_min |-> -440000, lon_max |-> -270000],
      scotland      |-> [lat_min |-> 5660000, lat_max |-> 5860000,
                         lon_min |-> -630000, lon_max |-> -310000],
      peak_district |-> [lat_min |-> 5320000, lat_max |-> 5415000,
                         lon_min |-> -255000, lon_max |-> -155000] ]

\* round(lo + u * (hi - lo), 5) for a unit u with numerator num; the bounds
\* are multiples of 1e-4 degrees, so the width is divided by ten first
Interpolate(lo, hi, num) == lo + MulRound(num, (hi - lo) \div 10, UnitScale \div 10)

\* a _make_lat_lon that spreads the latitude over the longitude width
MakeLatLonLonWidth(region, key) ==
    LET bounds == REGION_BOUNDS[region]
        u == StableHashToUnit(key)
        v == StableHashToUnit(Reverse(key))
    IN  [ lat |-> Interpolate(bounds.lat_min,
                              bounds.lat_min + (bounds.lon_max - bounds.lon_min), u),
          lon |-> Interpolate(bounds.lon_min, bounds.lon_max, v) ]

\* _make_lat_lon(region, key) for a region of REGION_BOUNDS
MakeLatLon(region, key) ==
    LET bounds == REGION_BOUNDS[region]
        u == StableHashToUnit(key)
        v == StableHashToUnit(Reverse(key))
    IN  [ lat |-> Interpolate(bounds.lat_min, bounds.lat_max, u),
          lon |-> Interpolate(bounds.lon_min, bounds.lon_max, v) ]

\* the characters of the generated keys: "-", "a", e-acute, right quote
KeyAlphabet == {45, 97, 233, 8217}

\* longest generated key
MaxKeyLen == 2

\* "abc", "foobar"
K_abc == <<97, 98, 99>>
K_foobar == <<102, 111, 111, 98, 97, 114>>
\* f"{route_id}-{name}-{region}" of build_dim_route: "1-Scafell Pike-lake_district"
K_Scafell == <<49, 45, 83, 99, 97, 102, 101, 108, 108, 32, 80, 105, 107, 101, 45,
               108, 97, 107, 101, 95, 100, 105, 115, 116, 114, 105, 99, 116>>

\* the keys the calls are made with
HashKeys ==
    UNION { [1..k -> KeyAlphabet] : k \in 0..MaxKeyLen }
        \cup {K_abc, K_foobar, K_Scafell}

\* the regions the calls are made with: those of REGION_BOUNDS and one that
\* is not
Regions == (DOMAIN REGION_BOUNDS) \cup {"pennines"}

\* the booking engine is not running
InitEngineIdle ==
    /\ routes = <<>> /\ guides = <<>>
    /\ dates = <<>>
    /\ closed_dates_by_div = <<>>
    /\ guide_ids = <<>>
    /\ rows = <<>>
    /\ booking_id = 1
    /\ ri = 1
    /\ di = 1
    /\ pending = 0
    /\ pc = "idle"
    /\ out_fact = <<>>
    /\ stream = <<>>
    /\ pos = 1
    /\ run = 1
    /\ first_fact = <<>>

\* a key is hashed by both implementations
HashKey ==
    /\ \E key \in HashKeys :
          /\ hkey' = key
          /\ hres' = [ to_unit |-> StableHashToUnit(key), unit |-> StableUnit(key) ]
    /\ hregion' = ""
    /\ hpc' = "hashed"
    /\ UNCHANGED outsideHash

\* _make_lat_lon(region, key) returns
MakeLatLonCall ==
    /\ \E region \in Regions, key \in HashKeys :
          /\ region \in DOMAIN REGION_BOUNDS
          /\ hregion' = region
          /\ hkey' = key
          /\ hres' = MakeLatLon(region, key)
    /\ hpc' = "latlon"
    /\ UNCHANGED outsideHash

\* _make_lat_lon(region, key) raises KeyError: "if region not in REGION_BOUNDS"
MakeLatLonKeyError ==
    /\ \E region \in Regions, key \in HashKeys :
          /\ region \notin DOMAIN REGION_BOUNDS
          /\ hregion' = region
          /\ hkey' = key
    /\ hres' = <<>>
    /\ hpc' = "keyerror"
    /\ UNCHANGED outsideHash

InitHash ==
    InitEngineIdle /\ bh = <<>> /\ InitHashIdle /\ InitScoreIdle /\ InitLaterIdle

NextHash ==
    \/ HashKey
    \/ MakeLatLonCall
    \/ MakeLatLonKeyError

SpecHash == InitHash /\ [][NextHash]_vars

-----------------------------------------------------------------------------
(* 2026 scoring frame (features.build_scoring_frame_2026,                  *)
(* features_v2.build_scoring_frame_2026_v2)                                *)
(*                                                                         *)
(* A table is a sequence of records.  A missing value is NaN; the cells of *)
(* the weather columns, which hold numbers, are <<>> when missing and      *)
(* <<x>> with x in hundredths otherwise.  The frame keeps the categorical  *)
(* columns as values: get_dummies replaces each by one 0/1 column per      *)
(* value and neither adds nor removes rows.                                *)

NaN == "NaN"

\* int(flag)
AsInt(b) == IF b THEN 1 ELSE 0

\* the columns of a null row
NullRow(cols) == [ c \in cols |-> NaN ]

\* df.drop(columns=cols)
Drop(row, cols) == [ c \in (DOMAIN row) \ cols |-> row[c] ]

\* the columns read from dim_route
RouteColumns == {"route_id", "region", "difficulty", "distance_km", "duration_hours"}

\* the columns of dim_date
DateColumns == DOMAIN DimDateRow(Date(2026, 1, 1), <<>>)

\* dim_date rows with "2026-01-01" <= date <= "2026-12-31"
D26(dim_date) ==
    SelectSeq(dim_date, LAMBDA r : /\ DateLE(Date(2026, 1, 1), r.date)
                                   /\ DateLE(r.date, Date(2026, 12, 31)))

\* d26.merge(routes, on="key", how="outer") with key = 1 on every row: each
\* date row with each route row, date-major; an empty side leaves the rows
\* of the other side, with nulls
CrossJoinOnKey(d26, rts) ==
    IF d26 # <<>> /\ rts # <<>>
    THEN [ k \in 1..(Len(d26) * Len(rts)) |->
             d26[((k - 1) \div Len(rts)) + 1] @@ rts[((k - 1) % Len(rts)) + 1] ]
    ELSE IF rts = <<>>
    THEN [ k \in 1..Len(d26) |-> d26[k] @@ NullRow(RouteColumns) ]
    ELSE [ k \in 1..Len(rts) |-> NullRow(DateColumns) @@ rts[k] ]

\* the rows of right that match l on the columns of on
Matches(l, right, on) == SelectSeq(right, LAMBDA r : \A c \in on : r[c] = l[c])

\* a merge with how="inner": a left row with no match is dropped
RECURSIVE MergeInner(_, _, _, _)
MergeInner(left, right, on, nulls) ==
    IF left = <<>> THEN <<>>
    ELSE LET l == Head(left)
             ms == Matches(l, right, on)
         IN  [ i \in 1..Len(ms) |-> l @@ [ c \in DOMAIN nulls |-> ms[i][c] ] ]
                 \o MergeInner(Tail(left), right, on, nulls)

\* left.merge(right, on=on, how="left"), the added columns being those of
\* nulls: a left row once per matching right row, and once with the nulls
\* when nothing matches
RECURSIVE MergeLeft(_, _, _, _)
MergeLeft(left, right, on, nulls) ==
    IF left = <<>> THEN <<>>
    ELSE LET l == Head(left)
             ms == Matches(l, right, on)
         IN  (IF ms = <<>>
              THEN << l @@ nulls >>
              ELSE [ i \in 1..Len(ms) |-> l @@ [ c \in DOMAIN nulls |-> ms[i][c] ] ])
                 \o MergeLeft(Tail(left), right, on, nulls)

FillDivisionNot(row) == row

\* base["division"].fillna("england-and-wales")
FillDivision(row) ==
    IF row.division = NaN THEN [row EXCEPT !.division = "england-and-wales"] ELSE row

\* div_bh(row): the bank-holiday flag of the row's division
DivBh(row) ==
    IF row.division = "scotland" THEN AsInt(row.is_bank_holiday_scotland)
    ELSE IF row.division = "northern-ireland"
    THEN AsInt(row.is_bank_holiday_northern_ireland)
    ELSE AsInt(row.is_bank_holiday_england_wales)

\* features.CLOSED_HOLIDAY_KEYWORDS (the same tuple in features_v2)
FEATURES_CLOSED_HOLIDAY_KEYWORDS ==
    << T_ChristmasDay, T_BoxingDay, T_NewYear, T_NewYearsDayAscii,
       T_NewYearsDayCurly, T_GoodFriday, T_EasterMonday >>

\* features._build_closed_dates_by_division (the same in features_v2)
FeaturesClosedDatesByDivision(table) ==
    LET closed == { e \in Range(table) :
                      \E k \in 1..Len(FEATURES_CLOSED_HOLIDAY_KEYWORDS) :
                          ContainsNoCase(e.title, FEATURES_CLOSED_HOLIDAY_KEYWORDS[k]) }
    IN  [ dv \in { e.division : e \in closed } |->
            { e.date : e \in { x \in closed : x.division = dv } } ]

\* int(date in closed_by_div.get(division, set()))
IsClosedDay(row, closed_by_div) == AsInt(row.date \in DictGet(closed_by_div, row.division, {}))

\* the frame up to the weather columns: scaffold, division, holiday flag,
\* closed-day flag
BaseFrame(dim_date, rts, region_div, table) ==
    LET base == CrossJoinOnKey(D26(dim_date), rts)
        merged == MergeLeft(base, region_div, {"region"}, [division |-> NaN])
        closed_by_div == FeaturesClosedDatesByDivision(table)
    IN  [ k \in 1..Len(merged) |->
            LET row == FillDivision(merged[k])
            IN  row @@ [ is_bank_holiday_division |-> DivBh(row),
                         is_closed_day |-> IsClosedDay(row, closed_by_div) ] ]

\* WEATHER_COLS
WEATHER_COLS ==
    {"temp_mean", "temp_min", "temp_max", "precip_sum", "snowfall_sum",
     "windspeed_mean", "windgusts_max", "severity_index"}

\* the weather columns, all missing
NoWeather == [ c \in WEATHER_COLS |-> <<>> ]

\* str(int(n)) for n >= 0, as code points
RECURSIVE Digits(_)
Digits(n) == IF n < 10 THEN <<48 + n>> ELSE Digits(n \div 10) \o <<48 + (n % 10)>>

\* f"{int(route_id)}-{int(date_key)}-{tag}", tag one of "u", "v", "w"
WeatherSeed(route_id, date_key, tag) ==
    Digits(route_id) \o <<45>> \o Digits(date_key) \o <<45, tag>>

\* _seasonal_temp_baseline(season), in 1e-7 degrees
SeasonalTempBaseline(season) ==
    IF season = "winter" THEN 25000000
    ELSE IF season = "spring" THEN 80000000
    ELSE IF season = "summer" THEN 130000000
    ELSE IF season = "autumn" THEN 75000000
    ELSE 80000000

\* season_sev, in twentieths: 1.25, 1.0, 0.85, 1.1, default 1.0
SeasonSev(season) ==
    IF season = "winter" THEN 25
    ELSE IF season = "spring" THEN 20
    ELSE IF season = "summer" THEN 17
    ELSE IF season = "autumn" THEN 22
    ELSE 20

\* The synthetic weather of fill_row for one route-day, each column rounded
\* to hundredths.  u, v, w are the numerators of the three units (1e-7).
\*   temp_mean      = base_t + (u - 0.5) * 6.0
\*   temp_min       = temp_mean - (1.5 + v * 3.0)
\*   temp_max       = temp_mean + (1.0 + w * 3.0)
\*   precip_sum     = max(0, (v * 8.0 - 2.0) * season_sev)
\*   snowfall_sum   = max(0, (u * 4.0 - 2.5) * (1.4 if winter else 0.3))
\*   windspeed_mean = 6.0 + (w * 10.0) * season_sev
\*   windgusts_max  = windspeed_mean + 6.0 + (u * 14.0) * season_sev
\*   severity       = clip(precip * 4 + snowfall * 8 + windgusts * 1.2, 0, 120)
\* The unrounded precip, snowfall and gusts are kept as hundredths plus a
\* remainder, and the severity is summed in hundredths plus a remainder in
\* 1e-9, so that no intermediate value leaves 32 bits.
SyntheticWeather(route_id, date_key, season) ==
    LET u == StableUnit(WeatherSeed(route_id, date_key, 117))
        v == StableUnit(WeatherSeed(route_id, date_key, 118))
        w == StableUnit(WeatherSeed(route_id, date_key, 119))
        sev == SeasonSev(season)
        mean == SeasonalTempBaseline(season) + (u - 5000000) * 6
        tmin == mean - (15000000 + 3 * v)
        tmax == mean + (10000000 + 3 * w)
        \* precip in 1/(2e8): 2e6 to the hundredth
        pn == Max(0, 8 * v - 20000000) * sev
        \* snowfall in 1e-8: 1e6 to the hundredth
        sn == Max(0, 4 * u - 25000000) * (IF season = "winter" THEN 14 ELSE 3)
        \* windspeed in 1/(2e7): 2e5 to the hundredth
        ws == 120000000 + w * sev
        \* (10w + 14u) * sev = g[1] * 1e6 + g[2], in 1/(2e8)
        g == MulDivQR(10 * w + 14 * u, sev, 1000000)
        \* severity: hundredths and a remainder in 1e-9 (1e7 to the hundredth)
        sh == 4 * (pn \div 2000000) + 8 * (sn \div 1000000) + 1440 + ((6 * g[1]) \div 10)
        sr == 20 * (pn % 2000000) + 80 * (sn % 1000000)
                + ((6 * g[1]) % 10) * 1000000 + 6 * g[2]
        severity == IF sh + (sr \div 10000000) >= 12000
                    THEN 12000
                    ELSE HalfEven(sh + (sr \div 10000000), sr % 10000000, 10000000)
    IN  [ temp_mean |-> << RoundDiv(mean, 100000) >>,
          temp_min |-> << RoundDiv(tmin, 100000) >>,
          temp_max |-> << RoundDiv(tmax, 100000) >>,
          precip_sum |-> << RoundDiv(pn, 2000000) >>,
          snowfall_sum |-> << RoundDiv(sn, 1000000) >>,
          windspeed_mean |-> << RoundDiv(ws, 200000) >>,
          windgusts_max |-> << 1200 + HalfEven(g[1] \div 2, (g[1] % 2) * 1000000 + g[2],
                                               2000000) >>,
          severity_index |-> << severity >> ]

\* fill_row(r): a row that has a temp_mean is kept, any other row gets the
\* synthetic weather in every weather column
FillRow(r) ==
    IF r.temp_mean # <<>> THEN r
    ELSE SyntheticWeather(r.route_id, r.date_key, r.season) @@ r

\* _add_weather_features(df, weather_daily_path, use_fallback=True); wfile
\* is the weather file: whether it exists, and its rows
AddWeatherFeatures(df, wfile) ==
    LET out == IF wfile.exists
               THEN MergeLeft(df, wfile.rows, {"route_id", "date_key"}, NoWeather)
               ELSE [ k \in 1..Len(df) |-> df[k] @@ NoWeather ]
    IN  [ k \in 1..Len(out) |-> FillRow(out[k]) ]

\* the keep list of build_scoring_frame_2026
KEEP ==
    {"date_key", "date", "year", "quarter", "month", "iso_week", "day_name",
     "is_weekend", "season", "route_id", "region", "difficulty", "distance_km",
     "duration_hours", "is_bank_holiday_england_wales", "is_bank_holiday_scotland",
     "is_bank_holiday_northern_ireland", "is_bank_holiday_any",
     "is_bank_holiday_division", "is_closed_day", "division"}

\* build_scoring_frame_2026: the columns of the keep list, without "date"
\* and "division"
BuildScoringFrame2026(dim_date, rts, region_div, table) ==
    LET base == BaseFrame(dim_date, rts, region_div, table)
    IN  [ k \in 1..Len(base) |->
            Drop(base[k], ((DOMAIN base[k]) \ KEEP) \cup {"date", "division"}) ]

\* build_scoring_frame_2026_v2: the same with the weather columns
BuildScoringFrame2026V2(dim_date, rts, region_div, table, wfile) ==
    LET base == AddWeatherFeatures(BaseFrame(dim_date, rts, region_div, table), wfile)
    IN  [ k \in 1..Len(base) |-> Drop(base[k], {"date", "division"}) ]

-----------------------------------------------------------------------------
(* Scoring harness (predict_2026.predict, predict_2026_v2.predict)         *)
(*                                                                         *)
(* Predictions are fixed-point: the raw model output in 1e-4, the stored   *)
(* predicted_bookings_count, after round(3), in 1e-3.                      *)

\* dim_route tables the scoring frame is built from: the UK routes, the UK
\* routes and a route of a region with no division on file, that route alone
ScoringRouteTables ==
    { RoutesUK, <<RouteScafell, RouteBenNevis, RouteOther>>, <<RouteOther>> }

\* dim_bank_holiday tables: the UK events, and none
ScoringHolidayTables == { HolidaysUK, <<>> }

WeatherRow(route_id, date_key, cells) ==
    [ route_id |-> route_id, date_key |-> date_key,
      temp_mean |-> cells[1], temp_min |-> cells[2], temp_max |-> cells[3],
      precip_sum |-> cells[4], snowfall_sum |-> cells[5],
      windspeed_mean |-> cells[6], windgusts_max |-> cells[7],
      severity_index |-> cells[8] ]

\* A daily weather table, one row per route and day: a full row of route 1,
\* a row of route 2 without temperatures, a row of a route that dim_route
\* does not have.
WeatherUKMO ==
    << WeatherRow(1, 20260406, << <<910>>, <<420>>, <<1380>>, <<250>>, <<0>>,
                                  <<1540>>, <<3010>>, <<4612>> >>),
       WeatherRow(2, 20260704, << <<>>, <<>>, <<>>, <<120>>, <<0>>,
                                  <<900>>, <<2100>>, <<3000>> >>),
       WeatherRow(9, 20260101, << <<-150>>, <<-600>>, <<210>>, <<0>>, <<340>>,
                                  <<2200>>, <<5100>>, <<8840>> >>) >>

\* the weather file of features_v2.Paths: absent, or the daily table
WeatherFiles ==
    { [exists |-> FALSE, rows |-> <<>>], [exists |-> TRUE, rows |-> WeatherUKMO] }

\* raw outputs of model.predict, in 1e-4: negative, below half a
\* thousandth, and two ordinary counts
RawSamples == <<-15000, 4, 12346, 23456>>

\* the output vectors of model.predict on n rows that the model follows:
\* the samples in turn, starting from each of them
RawPredictionVectors(n) ==
    { [ k \in 1..n |-> RawSamples[((k + s) % Len(RawSamples)) + 1] ] :
        s \in 0..(Len(RawSamples) - 1) }

\* The columns of an encoded frame are tuples: <<c>> for a column c that
\* get_dummies leaves alone, <<c, v>> for the 0/1 column "c_v" of value v of
\* a categorical column c.

\* cat_cols of _encode_categoricals
DAILY_CAT_COLS == {"region", "difficulty", "season", "day_name"}

\* the columns of pd.get_dummies(df, columns=cats, drop_first=False), cats
\* being the categorical columns that df has
EncodedColumns(df, cats) ==
    IF df = <<>> THEN {}
    ELSE { <<c>> : c \in (DOMAIN df[1]) \ cats }
           \cup { <<c, df[k][c]>> : c \in cats \cap (DOMAIN df[1]), k \in 1..Len(df) }

\* pd.get_dummies(df, columns=cats, drop_first=False)
Encode(df, cats) ==
    [ k \in 1..Len(df) |->
        [ col \in EncodedColumns(df, cats) |->
            IF Len(col) = 1 THEN df[k][col[1]] ELSE AsInt(df[k][col[1]] = col[2]) ] ]

\* a missing training column filled with -1
AlignedCellMinusOne(row, c) == IF c \in DOMAIN row THEN row[c] ELSE -1

\* "if c not in X.columns: X[c] = 0", then the cell of column c
AlignedCell(row, c) == IF c \in DOMAIN row THEN row[c] ELSE 0

\* "for c in feature_cols: if c not in X.columns: X[c] = 0" and
\* "X = X[feature_cols]": one matrix row per frame row, one cell per
\* training column, in the order of the list
Align(enc, cols) ==
    [ k \in 1..Len(enc) |-> [ j \in 1..Len(cols) |-> AlignedCell(enc[k], cols[j]) ] ]

\* Training column lists a daily bundle holds.  The first has columns the
\* 2026 frame lacks (region wales, season autumn) and lacks columns the
\* frame has; the second is in another order, and short.
DailyFeatureColLists ==
    { << <<"date_key">>, <<"route_id">>, <<"is_weekend">>, <<"is_closed_day">>,
         <<"region", "lake_district">>, <<"region", "scotland">>,
         <<"region", "wales">>, <<"season", "autumn">>, <<"season", "winter">> >>,
      << <<"season", "winter">>, <<"difficulty", "hard">>, <<"route_id">> >> }

\* the rounding without the clip
RoundOnly(raw) == RoundDiv(raw, 10)

\* np.clip(preds, 0, None), then preds.round(3)
ClipRound(raw) == RoundDiv(Max(raw, 0), 10)

\* a harness with no closed-day rule: the clipped, rounded prediction is kept
PredictedCountNoOverride(is_closed_day, pred) == pred

\* out.loc[out["is_closed_day"] == 1, "predicted_bookings_count"] = 0.0
PredictedCount(is_closed_day, pred) == IF is_closed_day = 1 THEN 0 ELSE pred

\* the forecast table of a frame and a vector of raw predictions
Forecast(df26, preds, prediction_version) ==
    [ k \in 1..Len(df26) |->
        [ predicted_bookings_count |->
              PredictedCount(df26[k].is_closed_day, ClipRound(preds[k])),
          prediction_version |-> prediction_version,
          year |-> 2026 ] @@ df26[k] ]

\* the files of PROCESSED_DIR before a scoring run
InitScoring ==
    /\ InitEngineIdle
    /\ bh \in ScoringHolidayTables
    /\ InitHashIdle
    /\ dim_route \in ScoringRouteTables
    /\ weather \in WeatherFiles
    /\ version = "none"
    /\ frame = <<>>
    /\ forecast = <<>>
    /\ raw_preds = <<>>
    /\ feature_cols = <<>>
    /\ X = <<>>
    /\ spc = "init"
    /\ InitLaterIdle

\* predict_2026.predict, line 24: df26 = build_scoring_frame_2026()
BuildFrameV1 ==
    /\ spc = "init"
    /\ version' = "v1"
    /\ frame' = BuildScoringFrame2026(BuildDimDate(bh), dim_route, RegionDivision, bh)
    /\ spc' = "framed"
    /\ UNCHANGED <<outsideScore, dim_route, weather, forecast, raw_preds,
                   feature_cols, X>>

\* predict_2026_v2.predict, line 24: df26 = build_scoring_frame_2026_v2()
BuildFrameV2 ==
    /\ spc = "init"
    /\ version' = "v2"
    /\ frame' = BuildScoringFrame2026V2(BuildDimDate(bh), dim_route, RegionDivision,
                                        bh, weather)
    /\ spc' = "framed"
    /\ UNCHANGED <<outsideScore, dim_route, weather, forecast, raw_preds,
                   feature_cols, X>>

\* predict_2026.predict, lines 26-48: score, clip, round, zero the closed
\* days, write the forecast
PredictV1 ==
    /\ spc = "framed"
    /\ version = "v1"
    /\ \E cols \in DailyFeatureColLists :
          /\ feature_cols' = cols
          /\ X' = Align(Encode(frame, DAILY_CAT_COLS), cols)
    /\ \E preds \in RawPredictionVectors(Len(frame)) :
          /\ raw_preds' = preds
          /\ forecast' = Forecast(frame, preds, "baseline_xgb_v1")
    /\ spc' = "predicted"
    /\ UNCHANGED <<outsideScore, dim_route, weather, version, frame>>

\* predict_2026_v2.predict, lines 26-46, likewise
PredictV2 ==
    /\ spc = "framed"
    /\ version = "v2"
    /\ \E cols \in DailyFeatureColLists :
          /\ feature_cols' = cols
          /\ X' = Align(Encode(frame, DAILY_CAT_COLS), cols)
    /\ \E preds \in RawPredictionVectors(Len(frame)) :
          /\ raw_preds' = preds
          /\ forecast' = Forecast(frame, preds, "time_split_xgb_v2")
    /\ spc' = "predicted"
    /\ UNCHANGED <<outsideScore, dim_route, weather, version, frame>>

NextScoring ==
    \/ BuildFrameV1
    \/ BuildFrameV2
    \/ PredictV1
    \/ PredictV2

SpecScoring == InitScoring /\ [][NextScoring]_vars

-----------------------------------------------------------------------------
(* Weekly scoring harness (predict_2026_weekly)                            *)

\* the elements of a finite set of integers, ascending
RECURSIVE SortedSeq(_)
SortedSeq(S) ==
    IF S = {} THEN <<>>
    ELSE LET m == CHOOSE x \in S : \A y \in S : x <= y
         IN  <<m>> \o SortedSeq(S \ {m})

\* to_datetime(f"{iso_year}-W{iso_week:02d}-1", format="%G-W%V-%u"): the
\* Monday of the ISO week, as days since 2024-01-01
WeekStart(iso_year, iso_week) ==
    LET jan4 == Ordinal(Date(iso_year, 1, 4))
    IN  jan4 - (jan4 % 7) + 7 * (iso_week - 1)

\* the columns of weekly_cal
WeekColumns == {"iso_year", "iso_week", "weekend_days", "bank_holiday_days_any",
                "week_start"}

\* d.groupby(["iso_year", "iso_week"]).agg(...): one row per ISO week of the
\* 2026 dates, ascending, with the number of weekend days and of
\* bank-holiday days of the week, and week_start
WeeklyCal(d) ==
    LET keys == SortedSeq({ d[k].iso_year * 100 + d[k].iso_week : k \in 1..Len(d) })
        Days(key) == { k \in 1..Len(d) : d[k].iso_year * 100 + d[k].iso_week = key }
    IN  [ i \in 1..Len(keys) |->
            [ iso_year |-> keys[i] \div 100,
              iso_week |-> keys[i] % 100,
              weekend_days |->
                  Cardinality({ k \in Days(keys[i]) :
                                  d[k].day_name \in {"Saturday", "Sunday"} }),
              bank_holiday_days_any |->
                  Cardinality({ k \in Days(keys[i]) : d[k].is_bank_holiday_any }),
              week_start |-> WeekStart(keys[i] \div 100, keys[i] % 100) ] ]

\* weekly_cal.merge(routes, on="key", how="outer") with key = 1 on every
\* row: week-major; an empty side leaves the rows of the other, with nulls
WeekCrossJoinOnKey(weekly_cal, rts) ==
    IF weekly_cal # <<>> /\ rts # <<>>
    THEN [ k \in 1..(Len(weekly_cal) * Len(rts)) |->
             weekly_cal[((k - 1) \div Len(rts)) + 1] @@ rts[((k - 1) % Len(rts)) + 1] ]
    ELSE IF rts = <<>>
    THEN [ k \in 1..Len(weekly_cal) |-> weekly_cal[k] @@ NullRow(RouteColumns) ]
    ELSE [ k \in 1..Len(rts) |-> NullRow(WeekColumns) @@ rts[k] ]

\* _build_week_scaffold_2026(dim_date, dim_route)
BuildWeekScaffold2026(dim_date, rts) == WeekCrossJoinOnKey(WeeklyCal(D26(dim_date)), rts)

\* the columns of pd.get_dummies(df, columns=["region", "difficulty"])
WEEKLY_CAT_COLS == {"region", "difficulty"}

\* Training column lists a weekly bundle holds: one with a column the
\* scaffold lacks (difficulty severe), one in another order, and short.
WeeklyFeatureColLists ==
    { << <<"iso_week">>, <<"weekend_days">>, <<"bank_holiday_days_any">>,
         <<"region", "scotland">>, <<"difficulty", "severe">>,
         <<"difficulty", "hard">> >>,
      << <<"difficulty", "hard">>, <<"iso_week">> >> }

\* the weekly forecast table: no closed-day rule
WeeklyForecast(scaffold, preds) ==
    [ k \in 1..Len(scaffold) |->
        [ predicted_bookings_count |-> ClipRound(preds[k]),
          prediction_version |-> "weekly_xgb_v1",
          year |-> 2026 ] @@ scaffold[k] ]

\* predict_2026_weekly.predict, lines 52-55: the scaffold.  On a dim_route
\* without rows "scaffold["route_id"].astype(int)" raises; the tables of
\* ScoringRouteTables have rows.
BuildWeekScaffold ==
    /\ spc = "init"
    /\ dim_route # <<>>
    /\ version' = "weekly"
    /\ frame' = BuildWeekScaffold2026(BuildDimDate(bh), dim_route)
    /\ spc' = "framed"
    /\ UNCHANGED <<outsideScore, dim_route, weather, forecast, raw_preds,
                   feature_cols, X>>

\* predict_2026_weekly.predict, lines 57-82: encode, align, score, clip,
\* round, write the forecast
PredictWeekly ==
    /\ spc = "framed"
    /\ version = "weekly"
    /\ \E cols \in WeeklyFeatureColLists :
          /\ feature_cols' = cols
          /\ X' = Align(Encode(frame, WEEKLY_CAT_COLS), cols)
    /\ \E preds \in RawPredictionVectors(Len(frame)) :
          /\ raw_preds' = preds
          /\ forecast' = WeeklyForecast(frame, preds)
    /\ spc' = "predicted"
    /\ UNCHANGED <<outsideScore, dim_route, weather, version, frame>>

\* the three scoring harnesses
NextHarness ==
    \/ NextScoring
    \/ BuildWeekScaffold
    \/ PredictWeekly

SpecHarness == InitScoring /\ [][NextHarness]_vars

-----------------------------------------------------------------------------
(* Training harnesses: train_forecast_time_split_v2.train_time_split and   *)
(* train_forecast_weekly.train_time_split.  The training frame is the      *)
(* list of the split column's values (year for the daily frame, iso_year   *)
(* for the weekly fact), one per row.                                      *)

MaxTrainRows == 3

TrainYears == {2024, 2025, 2026}

TrainKinds == {"daily_v2", "weekly"}

SeqsUpTo(S, n) == UNION { [1..k -> S] : k \in 0..n }

\* the frames build_training_frame_v2 / read_csv(weekly_fact) can return
TrainingFrames ==
    { [has_year |-> h, rows |-> r] :
        h \in BOOLEAN, r \in SeqsUpTo(TrainYears, MaxTrainRows) }

\* df[df[col] == y]
RowsOfYear(df, y) == SelectSeq(df, LAMBDA v : v = y)

SplitFailsWhenBothEmpty(train_df, test_df) == train_df = <<>> /\ test_df = <<>>

\* if train_df.empty or test_df.empty: raise ValueError(...)
SplitFails(train_df, test_df) == train_df = <<>> \/ test_df = <<>>

\* the start of a training run on the files of PROCESSED_DIR
InitTrain ==
    /\ InitEngineIdle
    /\ bh = <<>>
    /\ InitHashIdle
    /\ InitScoreIdle
    /\ InitResolverIdle
    /\ InitValidateIdle
    /\ InitPipeIdle
    /\ InitDimIdle
    /\ InitThirdIdle
    /\ tkind \in TrainKinds
    /\ tframe \in TrainingFrames
    /\ tpc = "start"
    /\ fitted = FALSE
    /\ model_file = <<>>
    /\ metrics_file = <<>>

\* daily v2, lines 27-28: the frame has no year column
MissingYearColumn ==
    /\ tpc = "start"
    /\ tkind = "daily_v2"
    /\ ~tframe.has_year
    /\ tpc' = "error"
    /\ UNCHANGED <<outsideTrain, tkind, tframe, fitted, model_file, metrics_file>>

\* weekly, line 55: df["iso_year"] on a table without the column (KeyError)
MissingIsoYearColumn ==
    /\ tpc = "start"
    /\ tkind = "weekly"
    /\ ~tframe.has_year
    /\ tpc' = "error"
    /\ UNCHANGED <<outsideTrain, tkind, tframe, fitted, model_file, metrics_file>>

\* the split into 2024 (train) and 2025 (test) and the check of both sides
TimeSplit ==
    /\ tpc = "start"
    /\ tframe.has_year
    /\ LET train_df == RowsOfYear(tframe.rows, 2024)
           test_df == RowsOfYear(tframe.rows, 2025)
       IN  tpc' = IF SplitFails(train_df, test_df) THEN "error" ELSE "split"
    /\ UNCHANGED <<outsideTrain, tkind, tframe, fitted, model_file, metrics_file>>

\* model.fit(X_train, y_train)
FitModel ==
    /\ tpc = "split"
    /\ fitted' = TRUE
    /\ tpc' = "fitted"
    /\ UNCHANGED <<outsideTrain, tkind, tframe, model_file, metrics_file>>

\* joblib.dump({"model": model, "feature_cols": feature_cols}, model_path)
DumpModel ==
    /\ tpc = "fitted"
    /\ model_file' = <<tkind>>
    /\ tpc' = "dumped"
    /\ UNCHANGED <<outsideTrain, tkind, tframe, fitted, metrics_file>>

\* metrics_path.write_text(json.dumps(metrics, indent=2))
WriteMetrics ==
    /\ tpc = "dumped"
    /\ metrics_file' =
         << [ n_train |-> Len(RowsOfYear(tframe.rows, 2024)),
              n_test |-> Len(RowsOfYear(tframe.rows, 2025)) ] >>
    /\ tpc' = "written"
    /\ UNCHANGED <<outsideTrain, tkind, tframe, fitted, model_file>>

NextTrain ==
    \/ MissingYearColumn
    \/ MissingIsoYearColumn
    \/ TimeSplit
    \/ FitModel
    \/ DumpModel
    \/ WriteMetrics

SpecTrain == InitTrain /\ [][NextTrain]_vars

-----------------------------------------------------------------------------
(* Closed-day resolver: generate_bookings._load_inputs reads               *)
(* dim_bank_holiday.csv and _build_closed_dates_by_division resolves it.   *)

MaxEvents == 2

\* "New Year Holiday": contains the keyword "New Year" and no longer keyword
T_NewYearHoliday ==
    <<78, 101, 119, 32, 89, 101, 97, 114, 32, 72, 111, 108, 105, 100, 97, 121>>
\* "Summer bank holiday"
T_SummerBankHoliday ==
    <<83, 117, 109, 109, 101, 114, 32, 98, 97, 110, 107, 32, 104, 111, 108,
      105, 100, 97, 121>>

\* the dates, divisions and titles of the events, each in ascending order
ResolverDates == << Date(2024, 12, 25), Date(2025, 1, 2) >>
ResolverDivisions == << "england-and-wales", "scotland" >>
ResolverTitles ==
    << T_SecondJanuary, T_ChristmasDay, T_NewYearHoliday, T_NewYearsDayCurly,
       T_SummerBankHoliday, Lower(T_BoxingDay) >>

\* every event over them, sorted by date, division, title
ResolverEvents ==
    LET nd == Len(ResolverDivisions)
        nt == Len(ResolverTitles)
    IN  [ k \in 1..(Len(ResolverDates) * nd * nt) |->
            Event(ResolverDates[((k - 1) \div (nd * nt)) + 1],
                  ResolverDivisions[(((k - 1) \div nt) % nd) + 1],
                  ResolverTitles[((k - 1) % nt) + 1]) ]

\* the dim_bank_holiday tables of at most MaxEvents events: sorted, without
\* duplicates, as build_dim_bank_holiday writes them (lines 36 and 47-49)
ResolverTables ==
    { [ i \in 1..Len(ix) |-> ResolverEvents[ix[i]] ] :
        ix \in { s \in SeqsUpTo(1..Len(ResolverEvents), MaxEvents) :
                   \A i \in 1..(Len(s) - 1) : s[i] < s[i + 1] } }

\* the file is absent, or holds a table (possibly of no rows)
BankHolidayFiles ==
    { [exists |-> FALSE, rows |-> <<>>] }
        \cup { [exists |-> TRUE, rows |-> t] : t \in ResolverTables }

InitResolver ==
    /\ InitEngineIdle
    /\ bh = <<>>
    /\ InitHashIdle
    /\ InitScoreIdle
    /\ InitTrainIdle
    /\ InitValidateIdle
    /\ InitPipeIdle
    /\ InitDimIdle
    /\ InitThirdIdle
    /\ bh_file \in BankHolidayFiles
    /\ rtable = <<>>
    /\ closed_map = <<>>
    /\ rpc = "start"

\* _load_inputs, line 64: pd.read_csv(p.dim_bank_holiday, parse_dates=["date"])
ReadBankHolidays ==
    /\ rpc = "start"
    /\ bh_file.exists
    /\ rtable' = bh_file.rows
    /\ rpc' = "loaded"
    /\ UNCHANGED <<outsideResolver, bh_file, closed_map>>

\* the same call when the file does not exist: FileNotFoundError
ReadBankHolidaysMissing ==
    /\ rpc = "start"
    /\ ~bh_file.exists
    /\ rpc' = "error"
    /\ UNCHANGED <<outsideResolver, bh_file, rtable, closed_map>>

\* generate_fact_bookings, line 208: _build_closed_dates_by_division(bh)
ResolveClosedDays ==
    /\ rpc = "loaded"
    /\ closed_map' = BuildClosedDatesByDivision(rtable)
    /\ rpc' = "resolved"
    /\ UNCHANGED <<outsideResolver, bh_file, rtable>>

NextResolver ==
    \/ ReadBankHolidays
    \/ ReadBankHolidaysMissing
    \/ ResolveClosedDays

SpecResolver == InitResolver /\ [][NextResolver]_vars

-----------------------------------------------------------------------------
(* Validation layer: validate_schema.validate.  Money is in 1e-4 pounds,   *)
(* margin_pct in 1e-4 (0.30 = 3000), as the fact table stores them.        *)

MaxFactRows == 2

REQUIRED_FACT_COLS ==
    { "booking_id", "booking_date", "date_key", "route_id", "guide_id",
      "party_size", "sales_ex_vat", "vat_amount", "sales_inc_vat",
      "staff_cost", "margin_amount", "margin_pct", "discount_flag" }

\* the tolerance 0.03 of the two VAT checks
VAT_TOLERANCE == 300

\* a booking that passes every check
GoodRow ==
    [ date_key |-> 20240401, route_id |-> 1, guide_id |-> 7, party_size |-> 2,
      sales_ex_vat |-> 1000000, vat_amount |-> 200000,
      sales_inc_vat |-> 1200000, margin_pct |-> 4000 ]

\* bookings that differ from it in the fields one check reads
FactRowSamples ==
    << GoodRow,
       [GoodRow EXCEPT !.route_id = 99],
       [GoodRow EXCEPT !.guide_id = 99],
       [GoodRow EXCEPT !.date_key = 20260101],
       [GoodRow EXCEPT !.party_size = 0],
       [GoodRow EXCEPT !.sales_ex_vat = -10000],
       [GoodRow EXCEPT !.sales_inc_vat = -10000],
       [GoodRow EXCEPT !.margin_pct = 2999],
       [GoodRow EXCEPT !.margin_pct = 3000],
       [GoodRow EXCEPT !.margin_pct = 5000],
       [GoodRow EXCEPT !.margin_pct = 5001],
       [GoodRow EXCEPT !.vat_amount = 200300, !.sales_inc_vat = 1200300],
       [GoodRow EXCEPT !.vat_amount = 200400, !.sales_inc_vat = 1200400],
       [GoodRow EXCEPT !.sales_inc_vat = 1300000],
       [GoodRow EXCEPT !.vat_amount = 90000000] >>

\* the booking_id columns of a table of n rows: 1..n, or the first id repeated
BookingIdColumns(n) ==
    { [i \in 1..n |-> i] } \cup
    (IF n >= 2 THEN { [i \in 1..n |-> IF i = 2 THEN 1 ELSE i] } ELSE {})

FactTables ==
    { [ i \in 1..Len(ix) |-> [booking_id |-> ids[i]] @@ FactRowSamples[ix[i]] ] :
        <<ix, ids>> \in UNION { { <<x, y>> : y \in BookingIdColumns(Len(x)) } :
                                 x \in SeqsUpTo(1..Len(FactRowSamples), MaxFactRows) } }

\* the dimension files and the fact's header: the complete ones, one with an
\* empty dimension each, and two with a required fact column missing
ValidateDims ==
    { [routes |-> <<1, 2>>, guides |-> <<7, 9>>, dates |-> <<20240401>>,
       columns |-> REQUIRED_FACT_COLS],
      [routes |-> <<>>, guides |-> <<7, 9>>, dates |-> <<20240401>>,
       columns |-> REQUIRED_FACT_COLS],
      [routes |-> <<1, 2>>, guides |-> <<>>, dates |-> <<20240401>>,
       columns |-> REQUIRED_FACT_COLS],
      [routes |-> <<1, 2>>, guides |-> <<7, 9>>, dates |-> <<>>,
       columns |-> REQUIRED_FACT_COLS],
      [routes |-> <<1, 2>>, guides |-> <<7, 9>>, dates |-> <<20240401>>,
       columns |-> REQUIRED_FACT_COLS \ {"margin_pct"}],
      [routes |-> <<1, 2>>, guides |-> <<7, 9>>, dates |-> <<20240401>>,
       columns |-> REQUIRED_FACT_COLS \ {"booking_id"}] }

InitValidate ==
    /\ InitEngineIdle
    /\ bh = <<>>
    /\ InitHashIdle
    /\ InitScoreIdle
    /\ InitTrainIdle
    /\ InitResolverIdle
    /\ InitPipeIdle
    /\ InitDimIdle
    /\ InitThirdIdle
    /\ \E inp \in ValidateDims :
        /\ v_routes = inp.routes
        /\ v_guides = inp.guides
        /\ v_dates = inp.dates
        /\ \E t \in FactTables : v_fact = [columns |-> inp.columns, rows |-> t]
    /\ vpc = "presence"
    /\ vlog = <<>>

\* _fail: print [FAIL] and raise SystemExit(1)
Fail(msg) ==
    /\ vlog' = Append(vlog, <<"FAIL", msg>>)
    /\ vpc' = "exit1"

\* _ok, then the next check
Ok(msg, next) ==
    /\ vlog' = Append(vlog, <<"OK", msg>>)
    /\ vpc' = next

WarnExits(msg, next) ==
    /\ vlog' = Append(vlog, <<"WARN", msg>>)
    /\ vpc' = "exit1"

\* _warn: print [WARN] and return, so the next check runs
Warn(msg, next) ==
    /\ vlog' = Append(vlog, <<"WARN", msg>>)
    /\ vpc' = next

\* series.duplicated().any()
HasDuplicate(col) == \E i, j \in 1..Len(col) : i < j /\ col[i] = col[j]

Column(t, c) == [i \in 1..Len(t) |-> t[i][c]]

MarginBelowOnly(m) == m < 3000

\* margin_pct < 0.30 or margin_pct > 0.50
MarginOutOfRange(m) == m < 3000 \/ m > 5000

\* diff.max() > 0.03 on floats: a difference of exactly 0.03 in decimal can
\* fall on either side after float rounding (abs(20.03 - 100 * 0.2) > 0.03)
ExceedsTolerance(diffs) ==
    IF \E i \in 1..Len(diffs) : diffs[i] > VAT_TOLERANCE THEN {TRUE}
    ELSE IF \E i \in 1..Len(diffs) : diffs[i] = VAT_TOLERANCE THEN BOOLEAN
    ELSE {FALSE}

\* lines 41-50
PresenceCheck ==
    /\ vpc = "presence"
    /\ IF v_routes = <<>> THEN Fail("dim_route is empty")
       ELSE IF v_guides = <<>> THEN Fail("dim_guide is empty")
       ELSE IF v_dates = <<>> THEN Fail("dim_date is empty")
       ELSE IF v_fact.rows = <<>> THEN Fail("fact_bookings is empty")
       ELSE Ok("presence", "columns")
    /\ UNCHANGED <<outsideValidate, v_routes, v_guides, v_dates, v_fact>>

\* lines 53-71
ColumnsCheck ==
    /\ vpc = "columns"
    /\ IF REQUIRED_FACT_COLS \ v_fact.columns # {} THEN Fail("missing columns")
       ELSE Ok("columns", "unique")
    /\ UNCHANGED <<outsideValidate, v_routes, v_guides, v_dates, v_fact>>

\* lines 74-76
UniqueCheck ==
    /\ vpc = "unique"
    /\ IF HasDuplicate(Column(v_fact.rows, "booking_id"))
       THEN Fail("booking_id is not unique")
       ELSE Ok("unique", "refs")
    /\ UNCHANGED <<outsideValidate, v_routes, v_guides, v_dates, v_fact>>

\* lines 79-93
ReferenceCheck ==
    /\ vpc = "refs"
    /\ LET fact == v_fact.rows
           bad_route == { r \in Range(fact) : r.route_id \notin Range(v_routes) }
           bad_guide == { r \in Range(fact) : r.guide_id \notin Range(v_guides) }
           bad_date == { r \in Range(fact) : r.date_key \notin Range(v_dates) }
       IN  IF bad_route # {} THEN Fail("invalid route_id")
           ELSE IF bad_guide # {} THEN Fail("invalid guide_id")
           ELSE IF bad_date # {} THEN Fail("invalid date_key")
           ELSE Ok("refs", "values")
    /\ UNCHANGED <<outsideValidate, v_routes, v_guides, v_dates, v_fact>>

\* lines 96-110
ValueCheck ==
    /\ vpc = "values"
    /\ LET fact == Range(v_fact.rows)
       IN  IF \E r \in fact : r.party_size <= 0 THEN Fail("party_size")
           ELSE IF \E r \in fact : r.sales_ex_vat < 0 THEN Fail("sales_ex_vat")
           ELSE IF \E r \in fact : r.sales_inc_vat < 0 THEN Fail("sales_inc_vat")
           ELSE IF \E r \in fact : MarginOutOfRange(r.margin_pct)
                THEN Fail("margin_pct")
           ELSE Ok("values", "vat")
    /\ UNCHANGED <<outsideValidate, v_routes, v_guides, v_dates, v_fact>>

\* lines 114-120: vat_amount against sales_ex_vat * VAT_RATE
VatCheck ==
    /\ vpc = "vat"
    /\ LET fact == v_fact.rows
           vat_diff == [ i \in 1..Len(fact) |->
                           Abs(fact[i].vat_amount
                                 - (fact[i].sales_ex_vat * VAT_RATE) \div 100) ]
       IN  \E over \in ExceedsTolerance(vat_diff) :
               IF over THEN Warn("vat", "inc") ELSE Ok("vat", "inc")
    /\ UNCHANGED <<outsideValidate, v_routes, v_guides, v_dates, v_fact>>

\* lines 123-129: sales_inc_vat against sales_ex_vat + vat_amount
IncVatCheck ==
    /\ vpc = "inc"
    /\ LET fact == v_fact.rows
           inc_diff == [ i \in 1..Len(fact) |->
                           Abs(fact[i].sales_inc_vat
                                 - (fact[i].sales_ex_vat + fact[i].vat_amount)) ]
       IN  \E over \in ExceedsTolerance(inc_diff) :
               IF over THEN Warn("inc", "done") ELSE Ok("inc", "done")
    /\ UNCHANGED <<outsideValidate, v_routes, v_guides, v_dates, v_fact>>

NextValidate ==
    \/ PresenceCheck
    \/ ColumnsCheck
    \/ UniqueCheck
    \/ ReferenceCheck
    \/ ValueCheck
    \/ VatCheck
    \/ IncVatCheck

\* validate is sequential code: each check runs once the one before returned
SpecValidate == InitValidate /\ [][NextValidate]_vars /\ WF_vars(NextValidate)

-----------------------------------------------------------------------------
(* Orchestration: run_pipeline.run executes its stages inside utils.io.step *)

\* the `with step(...)` blocks of run in program order, each with the flag
\* of the `if not skip_...` that encloses it ("" when none does)
STAGES ==
    << [name |-> "DIM: routes", skip |-> ""],
       [name |-> "DIM: guides", skip |-> ""],
       [name |-> "API: bank holidays", skip |-> ""],
       [name |-> "DIM: date", skip |-> ""],
       [name |-> "TRANSFORM: bank holiday dimensions", skip |-> ""],
       [name |-> "API: weather", skip |-> "skip_weather"],
       [name |-> "TRANSFORM: weather daily", skip |-> "skip_weather"],
       [name |-> "SYNTH: generate fact_bookings", skip |-> ""],
       [name |-> "MODEL: build fact_route_day", skip |-> ""],
       [name |-> "QUALITY: validate", skip |-> ""],
       [name |-> "SQL: build sqlite", skip |-> "skip_sql"],
       [name |-> "ML: baseline", skip |-> "skip_ml"],
       [name |-> "ML: time-split v2", skip |-> "skip_ml"] >>

SkippedNever(st, fl) == FALSE

\* the block st is not entered under the flags fl
Skipped(st, fl) == st.skip # "" /\ fl[st.skip]

\* the stages after stage k that run under the flags fl
StagesAfter(k, fl) == { j \in (k + 1)..Len(STAGES) : ~Skipped(STAGES[j], fl) }

\* main: the flags argparse hands to run
InitPipe ==
    /\ InitEngineIdle
    /\ bh = <<>>
    /\ InitHashIdle
    /\ InitScoreIdle
    /\ InitTrainIdle
    /\ InitResolverIdle
    /\ InitValidateIdle
    /\ InitDimIdle
    /\ InitThirdIdle
    /\ flags \in [skip_weather : BOOLEAN, skip_sql : BOOLEAN, skip_ml : BOOLEAN]
    /\ stage = 0
    /\ ppc = "between"
    /\ plog = <<>>

\* step, lines 9-12: the next block that is not skipped is entered and prints
\* its start line
StartStage ==
    /\ ppc = "between"
    /\ StagesAfter(stage, flags) # {}
    /\ LET j == CHOOSE x \in StagesAfter(stage, flags) :
                    \A y \in StagesAfter(stage, flags) : x <= y
       IN  /\ stage' = j
           /\ plog' = Append(plog, <<"start", STAGES[j].name>>)
    /\ ppc' = "in_stage"
    /\ UNCHANGED <<outsidePipe, flags>>

\* step, lines 13-15: the body returned; finally prints the end line
StageReturns ==
    /\ ppc = "in_stage"
    /\ plog' = Append(plog, <<"end", STAGES[stage].name>>)
    /\ ppc' = "between"
    /\ UNCHANGED <<outsidePipe, flags, stage>>

\* step, lines 13-15: the body raised; finally prints the end line and the
\* exception leaves run
StageRaises ==
    /\ ppc = "in_stage"
    /\ plog' = Append(plog, <<"end", STAGES[stage].name>>)
    /\ ppc' = "raised"
    /\ UNCHANGED <<outsidePipe, flags, stage>>

\* no block is left: run returns
RunReturns ==
    /\ ppc = "between"
    /\ StagesAfter(stage, flags) = {}
    /\ ppc' = "returned"
    /\ UNCHANGED <<outsidePipe, flags, stage, plog>>

NextPipe ==
    \/ StartStage
    \/ StageReturns
    \/ StageRaises
    \/ RunReturns

SpecPipe == InitPipe /\ [][NextPipe]_vars

-----------------------------------------------------------------------------
(* Bank-holiday dimension: clean_bank_holidays.build_dim_bank_holiday and  *)
(* its surrogate key abs(hash(s)) % 10**12.  Python's hash of a str is a    *)
(* keyed hash (SipHash) whose key is drawn when the interpreter starts,    *)
(* unless PYTHONHASHSEED fixes it; nothing in the repository fixes it.     *)
(* The model keeps what the key depends on: a signed 16-bit hash keyed by  *)
(* the process secret, and the modulus scaled to that width.               *)

MaxRawEvents == 2

\* the secrets an interpreter can start with
HashSecrets == {0, 1, 2}

HashWidth == 65536

\* 10**12, scaled to the hash width of the model
IdModulus == 1000

D_EnglandAndWales ==
    <<101, 110, 103, 108, 97, 110, 100, 45, 97, 110, 100, 45, 119, 97, 108,
      101, 115>>
D_Scotland == <<115, 99, 111, 116, 108, 97, 110, 100>>

\* astype(str) of a division
DivisionStr(division) ==
    IF division = "scotland" THEN D_Scotland ELSE D_EnglandAndWales

\* n as two digits
TwoDigits(n) == <<48 + (n \div 10), 48 + (n % 10)>>

\* dt.strftime("%Y-%m-%d")
IsoDate(dt) == Digits(dt.y) \o <<45>> \o TwoDigits(dt.m) \o <<45>> \o TwoDigits(dt.d)

\* division + "|" + date + "|" + title
SurrogateKeyString(e) ==
    DivisionStr(e.division) \o <<124>> \o IsoDate(e.date) \o <<124>> \o e.title

\* hash(s) in a process whose secret is k: a signed value
RECURSIVE KeyedHash(_, _, _)
KeyedHash(h, s, i) ==
    IF i > Len(s) THEN h
    ELSE KeyedHash((h * 33 + s[i]) % HashWidth, s, i + 1)

PyHash(k, s) ==
    LET u == KeyedHash((5381 + 7919 * k) % HashWidth, s, 1)
    IN  IF u >= HashWidth \div 2 THEN u - HashWidth ELSE u

\* abs(hash(s)) % (10**12)
BankHolidayId(k, e) == Abs(PyHash(k, SurrogateKeyString(e))) % IdModulus

\* the events of the raw JSON, listed in the order of
\* sort_values(["date", "division", "title"])
RawEvents ==
    << Event(Date(2024, 12, 25), "england-and-wales", T_ChristmasDay),
       Event(Date(2024, 12, 25), "scotland", T_ChristmasDay),
       Event(Date(2025, 1, 2), "scotland", T_SecondJanuary),
       Event(Date(2026, 1, 1), "england-and-wales", T_NewYearsDayCurly) >>

\* a raw file: events in any order, as indices of RawEvents
RawJsons == SeqsUpTo(1..Len(RawEvents), MaxRawEvents)

\* lines 34-49: the rows sorted, with their ids, without duplicate rows
DimBankHoliday(raw, k) ==
    LET ix == SortedSeq(Range(raw))
    IN  [ i \in 1..Len(ix) |->
            [bank_holiday_id |-> BankHolidayId(k, RawEvents[ix[i]])]
                @@ RawEvents[ix[i]] ]

InitDim ==
    /\ InitEngineIdle
    /\ bh = <<>>
    /\ InitHashIdle
    /\ InitScoreIdle
    /\ InitTrainIdle
    /\ InitResolverIdle
    /\ InitValidateIdle
    /\ InitPipeIdle
    /\ InitThirdIdle
    /\ raw_json \in RawJsons
    /\ hash_secret = 0
    /\ proc = 0
    /\ dims = <<>>
    /\ bpc = "start"

\* a Python process starts: the interpreter draws its hash secret
StartProcess ==
    /\ bpc \in {"start", "built"}
    /\ Len(dims) < 2
    /\ proc' = proc + 1
    /\ hash_secret' \in HashSecrets
    /\ bpc' = "ready"
    /\ UNCHANGED <<outsideDim, raw_json, dims>>

\* build_dim_bank_holiday on a file with events
BuildDimBankHoliday ==
    /\ bpc \in {"ready", "built"}
    /\ Len(dims) < 2
    /\ raw_json # <<>>
    /\ dims' = Append(dims, [proc |-> proc,
                             rows |-> DimBankHoliday(raw_json, hash_secret)])
    /\ bpc' = "built"
    /\ UNCHANGED <<outsideDim, raw_json, hash_secret, proc>>

\* build_dim_bank_holiday on a file without events: pd.DataFrame([]) has no
\* "date" column and line 35 raises KeyError
BuildDimBankHolidayNoEvents ==
    /\ bpc = "ready"
    /\ raw_json = <<>>
    /\ bpc' = "error"
    /\ UNCHANGED <<outsideDim, raw_json, hash_secret, proc, dims>>

NextDim ==
    \/ StartProcess
    \/ BuildDimBankHoliday
    \/ BuildDimBankHolidayNoEvents

SpecDim == InitDim /\ [][NextDim]_vars

-----------------------------------------------------------------------------
(* Route dimension: generate_routes.build_dim_route                        *)

MaxSeedRoutes == 2

\* nothing runs yet
InitAllIdle ==
    InitEngineIdle /\ bh = <<>> /\ InitHashIdle /\ InitScoreIdle /\ InitLaterIdle

R_LakeDistrict == <<108, 97, 107, 101, 95, 100, 105, 115, 116, 114, 105, 99, 116>>
R_Wales == <<119, 97, 108, 101, 115>>
R_Scotland == <<115, 99, 111, 116, 108, 97, 110, 100>>
R_PeakDistrict == <<112, 101, 97, 107, 95, 100, 105, 115, 116, 114, 105, 99, 116>>
R_Pennines == <<112, 101, 110, 110, 105, 110, 101, 115>>
\* "Scotland " as a seed file may spell it
R_ScotlandRaw == <<83, 99, 111, 116, 108, 97, 110, 100, 32>>

\* the spelling of each key of REGION_BOUNDS
RegionSpelling ==
    [ lake_district |-> R_LakeDistrict, wales |-> R_Wales,
      scotland |-> R_Scotland, peak_district |-> R_PeakDistrict ]

\* s.strip() on spaces
RECURSIVE Strip(_)
Strip(s) ==
    IF s = <<>> THEN s
    ELSE IF Head(s) = 32 THEN Strip(Tail(s))
    ELSE IF s[Len(s)] = 32 THEN Strip(SubSeq(s, 1, Len(s) - 1))
    ELSE s

\* str(r["region"]).lower().strip()
NormRegion(raw) == Strip(Lower(raw))

RouteCoordinatesOrOrigin(region, key) ==
    IF \E r \in DOMAIN REGION_BOUNDS : RegionSpelling[r] = region
    THEN <<MakeLatLon(CHOOSE r \in DOMAIN REGION_BOUNDS : RegionSpelling[r] = region, key)>>
    ELSE <<[lat |-> 0, lon |-> 0]>>

\* _make_lat_lon(region, key): <<the coordinates>>, or <<>> for the KeyError
\* raised when region is no key of REGION_BOUNDS (lines 41-45)
RouteCoordinates(region, key) ==
    IF \E r \in DOMAIN REGION_BOUNDS : RegionSpelling[r] = region
    THEN <<MakeLatLon(CHOOSE r \in DOMAIN REGION_BOUNDS : RegionSpelling[r] = region, key)>>
    ELSE <<>>

\* the route names of the seed files: "a" and "Pike"
SeedNames == { <<97>>, <<80, 105, 107, 101>> }

\* the entries of a seed file
SeedRoutes ==
    { [route_id |-> id, name |-> nm, region |-> rg] :
        id \in 1..2, nm \in SeedNames,
        rg \in {R_LakeDistrict, R_ScotlandRaw, R_Pennines} }

\* routes.json: absent, blank, not JSON, or a list of routes
RouteSeedFiles ==
    { [state |-> st, routes |-> <<>>] : st \in {"missing", "blank", "invalid"} }
        \cup { [state |-> "list", routes |-> r] :
                 r \in SeqsUpTo(SeedRoutes, MaxSeedRoutes) }

\* rows sorted by route_id (sort_values is stable for equal ids)
SortByRouteId(t) ==
    LET ids == SortedSeq({ t[i].route_id : i \in 1..Len(t) })
        RECURSIVE Cat(_)
        Cat(k) == IF k > Len(ids) THEN <<>>
                  ELSE SelectSeq(t, LAMBDA r : r.route_id = ids[k]) \o Cat(k + 1)
    IN  Cat(1)

\* build_dim_route is called on a seed file
StartBuildDimRoute ==
    /\ dr_pc = "idle"
    /\ routes_json' \in RouteSeedFiles
    /\ dr_pc' = "start"
    /\ UNCHANGED <<outsideRoute, dr_rows, dr_out, dr_err>>

\* lines 61-72: the file is read and parsed
ReadRoutesJson ==
    /\ dr_pc = "start"
    /\ IF routes_json.state = "missing"
       THEN dr_err' = "FileNotFoundError" /\ dr_pc' = "error"
       ELSE IF routes_json.state \in {"blank", "invalid"}
       THEN dr_err' = "ValueError" /\ dr_pc' = "error"
       ELSE dr_err' = dr_err /\ dr_pc' = "loop"
    /\ UNCHANGED <<outsideRoute, routes_json, dr_rows, dr_out>>

\* lines 76-95: one pass of the loop; _make_lat_lon may raise
AddRoute ==
    /\ dr_pc = "loop"
    /\ Len(dr_rows) < Len(routes_json.routes)
    /\ LET r == routes_json.routes[Len(dr_rows) + 1]
           region == NormRegion(r.region)
           key == Digits(r.route_id) \o <<45>> \o r.name \o <<45>> \o region
           p == RouteCoordinates(region, key)
       IN  IF p = <<>>
           THEN /\ dr_err' = "KeyError: region not found in REGION_BOUNDS"
                /\ dr_pc' = "error"
                /\ dr_rows' = dr_rows
           ELSE /\ dr_rows' = Append(dr_rows,
                      [ route_id |-> r.route_id, region |-> region,
                        route_lat |-> p[1].lat, route_lon |-> p[1].lon ])
                /\ UNCHANGED <<dr_err, dr_pc>>
    /\ UNCHANGED <<outsideRoute, routes_json, dr_out>>

\* lines 97-106: the rows are sorted and written
WriteDimRoute ==
    /\ dr_pc = "loop"
    /\ Len(dr_rows) = Len(routes_json.routes)
    /\ dr_out' = <<SortByRouteId(dr_rows)>>
    /\ dr_pc' = "done"
    /\ UNCHANGED <<outsideRoute, routes_json, dr_rows, dr_err>>

NextRoutes ==
    \/ StartBuildDimRoute
    \/ ReadRoutesJson
    \/ AddRoute
    \/ WriteDimRoute

SpecRoutes == InitAllIdle /\ [][NextRoutes]_vars

-----------------------------------------------------------------------------
(* Rollups: build_model_tables.build_route_day and                         *)
(* build_weekly_tables.build_route_week.  Of the summed measures the model *)
(* keeps bookings_count; of the route attributes, difficulty.              *)

MaxBookings == 2

\* days of the booking period 2024-01-01 .. 2025-12-31 the rollups see: the
\* first day, days around both year ends, and a summer Saturday
RollupCalendar ==
    << Date(2024, 1, 1), Date(2024, 12, 30), Date(2025, 6, 14),
       Date(2025, 12, 28), Date(2025, 12, 29), Date(2025, 12, 31) >>

\* dim_bank_holiday tables behind a dim_date file: with New Year's Day 2024
\* on it, and without
RollupHolidayTables ==
    { << Event(Date(2024, 1, 1), "england-and-wales", T_NewYearsDayCurly) >>, <<>> }

\* build_dim_date over the days of RollupCalendar
RollupDimDate(table) ==
    [ i \in 1..Len(RollupCalendar) |-> DimDateRow(RollupCalendar[i], table) ]

\* dim_route files: the current one, and one written before route 2 existed
RollupRouteTables == { RoutesUK, <<RouteScafell>> }

\* the region the engine writes for a route
RegionOfRoute(route_id) == IF route_id = 1 THEN "lake_district" ELSE "scotland"

\* fact tables of at most MaxBookings bookings, booking_id = row number
FactBookingTables ==
    { [ i \in 1..Len(t) |->
          [ booking_id |-> i,
            date_key |-> DateKey(RollupCalendar[t[i][1]]),
            route_id |-> t[i][2],
            region |-> RegionOfRoute(t[i][2]) ] ] :
        t \in SeqsUpTo((1..Len(RollupCalendar)) \X (1..2), MaxBookings) }

\* sum of column c over the rows of t
RECURSIVE SumOf(_, _)
SumOf(t, c) == IF t = <<>> THEN 0 ELSE Head(t)[c] + SumOf(Tail(t), c)

\* fact.groupby(["date_key", "route_id", "region"], as_index=False)
\*     .agg(bookings_count=("booking_id", "count")): one row per group that
\* occurs, in key order
GroupByRouteDay(fact) ==
    LET keys == SortedSeq({ fact[i].date_key * 10 + fact[i].route_id :
                              i \in 1..Len(fact) })
        Grp(k) == SelectSeq(fact, LAMBDA b : b.date_key * 10 + b.route_id = k)
    IN  [ i \in 1..Len(keys) |->
            [ date_key |-> keys[i] \div 10,
              route_id |-> keys[i] % 10,
              region |-> Grp(keys[i])[1].region,
              bookings_count |-> Len(Grp(keys[i])) ] ]

\* the dim_date columns the model follows into fact_route_day
DayDateNulls ==
    [ iso_year |-> NaN, iso_week |-> NaN, is_weekend |-> NaN,
      is_bank_holiday_any |-> NaN ]

\* build_route_day, lines 25-90
BuildRouteDayTable(fact, dim_date, dr) ==
    MergeLeft(MergeLeft(GroupByRouteDay(fact), dim_date, {"date_key"}, DayDateNulls),
              dr, {"route_id"}, [difficulty |-> NaN])

\* the columns both sides of the merge of build_route_week carry
SHARED_COLS == {"iso_year", "iso_week", "is_bank_holiday_any", "is_weekend"}

\* day.merge(dd, on="date_key", how="left", suffixes=("_x", "_y")): the
\* shared columns come out as <<c, "x">> (fact) and <<c, "y">> (dim_date),
\* every other column c as <<c>>
MergeSuffixed(day, dd) ==
    [ i \in 1..Len(day) |->
        LET ms == Matches(day[i], dd, {"date_key"})
        IN  [ c \in { <<d>> : d \in (DOMAIN day[i]) \ SHARED_COLS } |->
                   <<day[i][c[1]]>> ]
            @@ [ c \in SHARED_COLS \X {"x"} |-> <<day[i][c[1]]>> ]
            @@ [ c \in SHARED_COLS \X {"y"} |->
                   IF ms = <<>> THEN <<>> ELSE <<ms[1][c[1]]>> ] ]

ResolvePreferX(row, base) ==
    IF <<base>> \in DOMAIN row THEN row
    ELSE IF <<base, "x">> \in DOMAIN row
    THEN (<<base>> :> row[<<base, "x">>]) @@ row
    ELSE IF <<base, "y">> \in DOMAIN row
    THEN (<<base>> :> row[<<base, "y">>]) @@ row
    ELSE row

\* _resolve_prefer_y(df, base), on one row
ResolvePreferY(row, base) ==
    IF <<base>> \in DOMAIN row THEN row
    ELSE IF <<base, "y">> \in DOMAIN row
    THEN (<<base>> :> row[<<base, "y">>]) @@ row
    ELSE IF <<base, "x">> \in DOMAIN row
    THEN (<<base>> :> row[<<base, "x">>]) @@ row
    ELSE row

\* lines 105-143: the merged frame with the base columns resolved, the rows
\* without ISO week dropped and the missing flags filled with 0
MergedDays(day, dd) ==
    LET m == MergeSuffixed(day, dd)
        res == [ i \in 1..Len(m) |->
                   ResolvePreferY(ResolvePreferY(ResolvePreferY(ResolvePreferY(
                       m[i], "iso_year"), "iso_week"), "is_bank_holiday_any"),
                       "is_weekend") ]
        kept == SelectSeq(res, LAMBDA r : r[<<"iso_year">>] # <<>> /\ r[<<"iso_week">>] # <<>>)
        Flag(cell) == IF cell = <<>> THEN 0 ELSE AsInt(cell[1])
    IN  [ i \in 1..Len(kept) |->
            [ iso_year |-> kept[i][<<"iso_year">>][1],
              iso_week |-> kept[i][<<"iso_week">>][1],
              route_id |-> kept[i][<<"route_id">>][1],
              region |-> kept[i][<<"region">>][1],
              bookings_count |-> kept[i][<<"bookings_count">>][1],
              is_bank_holiday_any |-> Flag(kept[i][<<"is_bank_holiday_any">>]),
              is_weekend |-> Flag(kept[i][<<"is_weekend">>]) ] ]

\* lines 146-165: groupby(["iso_year", "iso_week", "route_id", "region"]).sum
GroupByRouteWeek(merged) ==
    LET Key(r) == (r.iso_year * 100 + r.iso_week) * 10 + r.route_id
        keys == SortedSeq({ Key(merged[i]) : i \in 1..Len(merged) })
        Grp(k) == SelectSeq(merged, LAMBDA r : Key(r) = k)
    IN  [ i \in 1..Len(keys) |->
            [ iso_year |-> keys[i] \div 1000,
              iso_week |-> (keys[i] \div 10) % 100,
              route_id |-> keys[i] % 10,
              region |-> Grp(keys[i])[1].region,
              bookings_count |-> SumOf(Grp(keys[i]), "bookings_count"),
              bank_holiday_days_any |-> SumOf(Grp(keys[i]), "is_bank_holiday_any"),
              weekend_days |-> SumOf(Grp(keys[i]), "is_weekend") ] ]

\* build_route_week, lines 105-188
BuildRouteWeekTable(day, dd, dr) ==
    LET weekly == MergeLeft(GroupByRouteWeek(MergedDays(day, dd)), dr,
                            {"route_id"}, [difficulty |-> NaN])
        dated == [ i \in 1..Len(weekly) |->
                     [week_start |-> WeekStart(weekly[i].iso_year, weekly[i].iso_week)]
                         @@ weekly[i] ]
    IN  SelectSeq(dated, LAMBDA w : w.iso_year >= 2024 /\ w.iso_year <= 2025)

\* the files of PROCESSED_DIR before the rollups run
StartRollup ==
    /\ ru_pc = "idle"
    /\ fact_bookings' \in FactBookingTables
    /\ ru_dim_route' \in RollupRouteTables
    /\ \E t \in RollupHolidayTables : dd_day' = RollupDimDate(t)
    /\ dd_week' = <<>>
    /\ ru_pc' = "start"
    /\ UNCHANGED <<outsideRollup, route_day, route_week>>

\* build_route_day()
BuildRouteDay ==
    /\ ru_pc = "start"
    /\ route_day' = BuildRouteDayTable(fact_bookings, dd_day, ru_dim_route)
    /\ ru_pc' = "day"
    /\ UNCHANGED <<outsideRollup, fact_bookings, ru_dim_route, dd_day, dd_week,
                   route_week>>

\* build_route_week(), on the dim_date file of that moment: the one
\* build_route_day read, or one rebuilt from other bank holidays since
BuildRouteWeek ==
    /\ ru_pc = "day"
    /\ \E t \in RollupHolidayTables :
          /\ dd_week' = RollupDimDate(t)
          /\ route_week' = BuildRouteWeekTable(route_day, RollupDimDate(t), ru_dim_route)
    /\ ru_pc' = "week"
    /\ UNCHANGED <<outsideRollup, fact_bookings, ru_dim_route, dd_day, route_day>>

NextRollup ==
    \/ StartRollup
    \/ BuildRouteDay
    \/ BuildRouteWeek

SpecRollup == InitAllIdle /\ [][NextRollup]_vars

-----------------------------------------------------------------------------
(* Weather enrichment on its own: features_v2._add_weather_features over   *)
(* frames of route-days and the weather files it may find.                 *)

MaxFrameRows == 2

\* route-days of a frame before enrichment, with the season of dim_date
WeatherFrameRows ==
    { [route_id |-> r, date_key |-> d[1], season |-> d[2]] :
        r \in 1..2,
        d \in { <<20260101, "winter">>, <<20260406, "spring">>,
                <<20260704, "summer">> } }

\* A daily weather table whose row of route 1 has temperatures, rain and
\* wind speed, and no gusts or severity.
WeatherGappy ==
    << WeatherRow(1, 20260406, << <<910>>, <<420>>, <<1380>>, <<250>>, <<0>>,
                                  <<1540>>, <<>>, <<>> >>) >>

\* the file at Paths.weather_daily: absent, or one of the daily tables
EnrichWeatherFiles ==
    WeatherFiles \cup { [exists |-> TRUE, rows |-> WeatherGappy] }

\* the frame and the weather file before _add_weather_features is called
StartEnrich ==
    /\ wx_pc = "idle"
    /\ wx_df' \in SeqsUpTo(WeatherFrameRows, MaxFrameRows)
    /\ wx_file' \in EnrichWeatherFiles
    /\ wx_pc' = "start"
    /\ UNCHANGED <<outsideWx, wx_out>>

\* out = _add_weather_features(df, paths.weather_daily, use_fallback=True)
EnrichWeather ==
    /\ wx_pc = "start"
    /\ wx_out' = AddWeatherFeatures(wx_df, wx_file)
    /\ wx_pc' = "done"
    /\ UNCHANGED <<outsideWx, wx_df, wx_file>>

NextWx ==
    \/ StartEnrich
    \/ EnrichWeather

SpecWx == InitAllIdle /\ [][NextWx]_vars

-----------------------------------------------------------------------------
(* Party size on its own: generate_bookings._party_size over every         *)
(* difficulty and every uniform sample of [0, 1) in thousandths.           *)

\* the four difficulties of the route seed, one that is none of them, and
\* the str() of a missing value
PartyDifficulties == {"easy", "moderate", "hard", "severe", "extreme", "nan"}

\* a booking of a route of some difficulty is about to draw its party size
StartPartySize ==
    /\ ps_pc = "idle"
    /\ ps_difficulty' \in PartyDifficulties
    /\ ps_u' \in 0..999
    /\ ps_pc' = "start"
    /\ UNCHANGED <<outsideParty, ps_party>>

\* party = _party_size(difficulty, rng)
DrawPartySize ==
    /\ ps_pc = "start"
    /\ ps_party' = PartySize(ps_difficulty, ps_u)
    /\ ps_pc' = "done"
    /\ UNCHANGED <<outsideParty, ps_difficulty, ps_u>>

NextParty ==
    \/ StartPartySize
    \/ DrawPartySize

SpecParty == InitAllIdle /\ [][NextParty]_vars

-----------------------------------------------------------------------------
(* Feature frames on the engine's own output: generate_fact_bookings, then *)
(* build_route_day, features.build_training_frame and                      *)
(* features.build_scoring_frame_2026 on the same dimension tables.  The    *)
(* frames keep the categorical columns as values.                          *)

\* the tables <<dim_route, dim_guide, dim_bank_holiday>> of these runs: the
\* UK tables, and a route of a region with no division on file
FeatureInputs ==
    { <<RoutesUK, GuidesUK, HolidaysUK>>,
      <<<<RouteOther>>, GuidesUK, HolidaysUK>> }

InitFeatures ==
    /\ \E inp \in FeatureInputs :
          routes = inp[1] /\ guides = inp[2] /\ bh = inp[3]
    /\ dates = <<>>
    /\ closed_dates_by_div = <<>>
    /\ guide_ids = <<>>
    /\ rows = <<>>
    /\ booking_id = 1
    /\ ri = 1
    /\ di = 1
    /\ pending = 0
    /\ pc = "start"
    /\ out_fact = <<>>
    /\ stream = <<>>
    /\ pos = 1
    /\ run = 1
    /\ first_fact = <<>>
    /\ InitHashIdle
    /\ InitScoreIdle
    /\ InitLaterIdle

\* build_route_day on the fact the engine wrote: the aggregate rows with
\* every column of dim_date and the route attributes
AggregateRouteDay ==
    /\ pc = "done"
    /\ ft_pc = "idle"
    /\ ft_route_day' =
          MergeLeft(MergeLeft(GroupByRouteDay(out_fact), BuildDimDate(bh), {"date_key"},
                              NullRow(DateColumns \ {"date_key"})),
                    routes, {"route_id"},
                    NullRow({"difficulty", "distance_km", "duration_hours"}))
    /\ ft_pc' = "day"
    /\ UNCHANGED <<outsideFrame, ft_train, ft_score>>

\* the keep list of build_training_frame, lines 68-88
TRAIN_KEEP ==
    {"date_key", "date", "year", "quarter", "month", "iso_week", "day_name",
     "is_weekend", "season", "route_id", "region", "difficulty", "distance_km",
     "duration_hours", "is_bank_holiday_england_wales", "is_bank_holiday_scotland",
     "is_bank_holiday_northern_ireland", "is_bank_holiday_any", "bookings_count"}

\* build_training_frame, lines 66-124: keep list, division of the region,
\* division-aware holiday flag, closed-day flag, without "date" and
\* "division"
BuildTrainingFrame(route_day_rows, region_div, table) ==
    LET df == [ k \in 1..Len(route_day_rows) |->
                  Drop(route_day_rows[k], (DOMAIN route_day_rows[k]) \ TRAIN_KEEP) ]
        merged == MergeLeft(df, region_div, {"region"}, [division |-> NaN])
        closed_by_div == FeaturesClosedDatesByDivision(table)
    IN  [ k \in 1..Len(merged) |->
            LET row == FillDivision(merged[k])
            IN  Drop(row @@ [ is_bank_holiday_division |-> DivBh(row),
                              is_closed_day |-> IsClosedDay(row, closed_by_div) ],
                     {"date", "division"}) ]

\* train_forecast.train: df, feature_cols = build_training_frame()
BuildTrainingFrameStep ==
    /\ ft_pc = "day"
    /\ ft_train' = BuildTrainingFrame(ft_route_day, RegionDivision, bh)
    /\ ft_pc' = "train"
    /\ UNCHANGED <<outsideFrame, ft_route_day, ft_score>>

\* predict_2026.predict: df26 = build_scoring_frame_2026()
BuildScoringFrameStep ==
    /\ ft_pc = "train"
    /\ ft_score' = BuildScoringFrame2026(BuildDimDate(bh), routes, RegionDivision, bh)
    /\ ft_pc' = "score"
    /\ UNCHANGED <<outsideFrame, ft_route_day, ft_train>>

NextFeatures ==
    \/ LoadInputs
    \/ SkipClosedDay
    \/ DrawBookingCount
    \/ GenerateBooking
    \/ WriteFact
    \/ AggregateRouteDay
    \/ BuildTrainingFrameStep
    \/ BuildScoringFrameStep

SpecFeatures == InitFeatures /\ [][NextFeatures]_vars

-----------------------------------------------------------------------------
(* Files of a pipeline run: which configuration names the modules of a     *)
(* stage import, which files the stage reads, looks for and writes.  A     *)
(* command is the orchestrator (python -m src.run_pipeline, with its skip  *)
(* flags) or the calls of one stage made on their own.  Files are named    *)
(* relative to data/, models by "models/...".                              *)

\* the names config.py defines
CONFIG_NAMES ==
    {"BASE_DIR", "DATA_DIR", "RAW_DIR", "PROCESSED_DIR", "REGION_BOUNDS",
     "SeedFiles", "SEEDS", "VAT_RATE", "RANDOM_SEED"}

\* "from src.config import ..." of the modules of stage i of STAGES
StageImports(i) ==
    CASE i = 1 -> {"SEEDS", "PROCESSED_DIR", "REGION_BOUNDS"}
      [] i = 2 -> {"SEEDS", "PROCESSED_DIR"}
      [] i = 3 -> {"RAW_DIR"}
      [] i \in {4, 5, 6} -> {"RAW_DIR", "PROCESSED_DIR"}
      [] i = 7 -> {"INTERIM_DIR", "PROCESSED_DIR"}
      [] i = 8 -> {"PROCESSED_DIR", "VAT_RATE", "RANDOM_SEED"}
      [] i = 10 -> {"PROCESSED_DIR", "VAT_RATE"}
      [] OTHER -> {"PROCESSED_DIR"}

\* the files stage i opens without testing for them
StageReads(i) ==
    CASE i = 1 -> {"raw/routes.json"}
      [] i = 2 -> {"raw/guides.json"}
      [] i = 3 -> {}
      [] i = 4 -> {"raw/bank_holidays.json"}
      [] i = 5 -> {"raw/bank_holidays.json"}
      [] i = 6 -> {"dim_route"}
      [] i = 7 -> {"interim/weather_hourly_ukmo"}
      [] i = 8 -> {"dim_route", "dim_guide", "dim_date", "dim_bank_holiday",
                   "bridge_bank_holiday_date", "dim_region_division"}
      [] i = 9 -> {"fact_bookings_2024_2025", "dim_date", "dim_route"}
      [] i = 10 -> {"dim_route", "dim_guide", "dim_date", "fact_bookings_2024_2025"}
      \* build_sqlite: every file stem of TABLES
      [] i = 11 -> {"dim_route", "dim_guide", "dim_date", "dim_bank_holiday",
                    "bridge_bank_holiday_date", "dim_region_division",
                    "fact_bookings_2024_2025", "fact_route_day_2024_2025",
                    "fact_route_week_2024_2025", "fact_forecast_week_2026"}
      [] OTHER -> {"fact_route_day_2024_2025", "dim_date", "dim_route",
                   "dim_region_division", "dim_bank_holiday"}

\* the files stage i tests with exists() and does without
StageLooksFor(i) == IF i = 13 THEN {"fact_weather_daily_ukmo"} ELSE {}

\* the files stage i writes
StageWrites(i) ==
    CASE i = 1 -> {"dim_route"}
      [] i = 2 -> {"dim_guide"}
      [] i = 3 -> {"raw/bank_holidays.json"}
      [] i = 4 -> {"dim_date"}
      [] i = 5 -> {"dim_bank_holiday", "bridge_bank_holiday_date", "dim_region_division"}
      [] i = 6 -> {"raw/weather_ukmo", "interim/weather_hourly_ukmo"}
      [] i = 7 -> {"weather_daily_ukmo"}
      [] i = 8 -> {"fact_bookings_2024_2025"}
      [] i = 9 -> {"fact_route_day_2024_2025"}
      [] i = 10 -> {}
      [] i = 11 -> {"winter_tours.sqlite"}
      [] i = 12 -> {"models/booking_forecast_xgb", "ml_metrics_baseline",
                    "fact_forecast_2026"}
      [] OTHER -> {"models/booking_forecast_xgb_v2", "ml_metrics_time_split_v2",
                   "fact_forecast_2026_v2"}

\* the orchestrator under each choice of flags, and each stage on its own
Commands ==
    { [kind |-> "pipeline", flags |-> f, stage |-> 0] :
        f \in [{"skip_weather", "skip_sql", "skip_ml"} -> BOOLEAN] }
    \cup { [kind |-> "stage", flags |-> NoFlags, stage |-> i] : i \in 1..Len(STAGES) }

\* the stages a command runs, in order
CommandStages(cmd) ==
    IF cmd.kind = "pipeline"
    THEN LET Idx(n) == CHOOSE i \in 1..Len(STAGES) : STAGES[i].name = n
             kept == SelectSeq(STAGES, LAMBDA st : ~Skipped(st, cmd.flags))
         IN  [ k \in 1..Len(kept) |-> Idx(kept[k].name) ]
    ELSE << cmd.stage >>

\* the configuration names the interpreter must resolve before the command
\* runs: run_pipeline imports the modules of every stage, whatever the flags
CommandImports(cmd) ==
    IF cmd.kind = "pipeline"
    THEN {"SEEDS", "PROCESSED_DIR", "RAW_DIR"}
             \cup UNION { StageImports(i) : i \in 1..Len(STAGES) }
    ELSE StageImports(cmd.stage)

\* a command is started on the files left by the commands before it
StartCommand ==
    /\ pf_pc \in {"idle", "done", "failed", "import_error"}
    /\ pf_cmd' \in Commands
    /\ pf_start' = pf_files
    /\ pf_todo' = <<>>
    /\ pf_pc' = "import"
    /\ UNCHANGED <<outsideFile, pf_files>>

\* ImportError: cannot import name ... from 'src.config'
ImportFails ==
    /\ pf_pc = "import"
    /\ ~ (CommandImports(pf_cmd) \subseteq CONFIG_NAMES)
    /\ pf_pc' = "import_error"
    /\ UNCHANGED <<outsideFile, pf_files, pf_cmd, pf_start, pf_todo>>

\* the modules are loaded; run() or the stage function is called
ImportOk ==
    /\ pf_pc = "import"
    /\ CommandImports(pf_cmd) \subseteq CONFIG_NAMES
    /\ pf_todo' = CommandStages(pf_cmd)
    /\ pf_pc' = "running"
    /\ UNCHANGED <<outsideFile, pf_files, pf_cmd, pf_start>>

\* a stage finds its inputs and writes its outputs
StageRuns ==
    /\ pf_pc = "running"
    /\ pf_todo # <<>>
    /\ StageReads(Head(pf_todo)) \subseteq pf_files
    /\ pf_files' = pf_files \cup StageWrites(Head(pf_todo))
    /\ pf_todo' = Tail(pf_todo)
    /\ pf_pc' = IF Tail(pf_todo) = <<>> THEN "done" ELSE "running"
    /\ UNCHANGED <<outsideFile, pf_cmd, pf_start>>

\* FileNotFoundError: a stage opens a file that is not there
StageMissesInput ==
    /\ pf_pc = "running"
    /\ pf_todo # <<>>
    /\ ~ (StageReads(Head(pf_todo)) \subseteq pf_files)
    /\ pf_pc' = "failed"
    /\ UNCHANGED <<outsideFile, pf_files, pf_cmd, pf_start, pf_todo>>

NextFiles ==
    \/ StartCommand
    \/ ImportFails
    \/ ImportOk
    \/ StageRuns
    \/ StageMissesInput

SpecFiles == InitAllIdle /\ [][NextFiles]_vars

-----------------------------------------------------------------------------
(* Properties of the booking simulation engine                             *)

\* the booking tables of a state: the list being built and the file written
BookingTables == {rows, out_fact}

\* the closed days of a division, resolved from the bank-holiday table
ClosedDaysOf(division) == DictGet(BuildClosedDatesByDivision(bh), division, {})

\* C1 - Closure invariant: no booking of the generated table has a
\* booking_date in the closed-day set of its route's holiday division
\* (region-to-division lookup, default england-and-wales), whatever counts
\* the Poisson draws return.
C1_ClosureInvariant ==
    \A t \in BookingTables : \A k \in 1..Len(t) :
        t[k].booking_date \notin ClosedDaysOf(DivisionOf(t[k].region))

\* C1 witness: a finished run that passed a closed route-day, and holds a
\* booking of a scotland route on a day that is closed in england-and-wales.
C1_Witness ==
    /\ pc = "done"
    /\ \E i \in 1..Len(routes) : \E j \in 1..Len(dates) :
           dates[j].date \in ClosedDaysOf(DivisionOf(routes[i].region))
    /\ \E k \in 1..Len(out_fact) :
           /\ out_fact[k].holiday_division = "scotland"
           /\ out_fact[k].booking_date \in ClosedDaysOf("england-and-wales")

\* C2 - Determinism: the re-run with the same seed and the same input tables
\* writes the table the first run wrote: the same rows, in the same order,
\* with the same value in every field.
C2_Determinism ==
    (run = 2 /\ pc = "done") => out_fact = first_fact

\* C2 witness: a re-run that finished with a table of two or more bookings.
C2_Witness ==
    run = 2 /\ pc = "done" /\ Len(out_fact) >= 2 /\ Len(first_fact) >= 2

\* C3 - Margin bound: every booking has 0.30 <= margin_pct <= 0.50 in the
\* stored, 4-decimal value.
C3_MarginBound ==
    \A t \in BookingTables : \A k \in 1..Len(t) :
        3000 <= t[k].margin_pct /\ t[k].margin_pct <= 5000

\* C3 witness: a table with a discounted booking clamped up to 0.30 and a
\* party of six clamped down to 0.50.
C3_Witness ==
    /\ \E k \in 1..Len(rows) :
           rows[k].discount_flag = 1 /\ rows[k].margin_pct = 3000
    /\ \E k \in 1..Len(rows) :
           rows[k].party_size = 6 /\ rows[k].margin_pct = 5000

\* C4 - VAT identity on the stored, 2-decimal fields (cents):
\* |vat_amount - sales_ex_vat*0.20| <= 0.03 and
\* |sales_inc_vat - (sales_ex_vat + vat_amount)| <= 0.03.
C4_VatIdentity ==
    \A t \in BookingTables : \A k \in 1..Len(t) :
        /\ Abs(100 * t[k].vat_amount - VAT_RATE * t[k].sales_ex_vat) <= 300
        /\ Abs(t[k].sales_inc_vat - (t[k].sales_ex_vat + t[k].vat_amount)) <= 3

\* C4 witness: a discounted booking whose stored VAT is not exactly 20% of
\* its stored sales (the rounding shows), next to an undiscounted one.
C4_Witness ==
    /\ \E k \in 1..Len(rows) :
           /\ rows[k].discount_flag = 1
           /\ 100 * rows[k].vat_amount # VAT_RATE * rows[k].sales_ex_vat
    /\ \E k \in 1..Len(rows) : rows[k].discount_flag = 0

\* C5 - Referential integrity: every route_id, guide_id and date_key of the
\* booking table exists in dim_route, dim_guide and dim_date.
C5_ReferentialIntegrity ==
    \A t \in BookingTables : \A k \in 1..Len(t) :
        /\ t[k].route_id \in { r.route_id : r \in Range(routes) }
        /\ t[k].guide_id \in { g.guide_id : g \in Range(guides) }
        /\ t[k].date_key \in { d.date_key : d \in Range(BuildDimDate(bh)) }

\* C5 witness: a written table with bookings of two routes and two guides.
C5_Witness ==
    /\ pc = "done"
    /\ \E k \in 1..Len(out_fact) : \E l \in 1..Len(out_fact) :
           /\ out_fact[k].route_id # out_fact[l].route_id
           /\ out_fact[k].guide_id # out_fact[l].guide_id

\* C6 - booking_id is sequential in generation order: the k-th booking
\* appended has booking_id k, from 1, with no gap and no repeat, and the next
\* id is the number of bookings plus one, so that skipped route-days (closed
\* or zero draw) consume no id.
C6_SequentialIds ==
    /\ \A t \in BookingTables : \A k \in 1..Len(t) : t[k].booking_id = k
    /\ pc \in {"loop", "done", "error"} => booking_id = Len(rows) + 1

\* C6 witness: a written table of two or more bookings, the first of which
\* was generated after a skipped route-day, the last on a later route-day.
C6_Witness ==
    /\ pc = "done"
    /\ Len(out_fact) >= 2
    /\ out_fact[1].booking_date # dates[1].date
    /\ out_fact[Len(out_fact)].route_id # out_fact[1].route_id

-----------------------------------------------------------------------------
(* Properties of the hash and of the route coordinates                     *)

\* C7 - Both hash implementations, _stable_hash_to_unit and _stable_unit,
\* return the 32-bit FNV-1a hash of the UTF-8 bytes of the key, reduced
\* modulo 10^7 and divided by 10^7: the value lies in [0, 1), the two agree
\* on every key, and the published FNV-1a values of "", "a" and "foobar"
\* (0x811C9DC5, 0xE40C292C, 0xBF9CF968) come out.
C7_HashAgreement ==
    hpc = "hashed" =>
        /\ hres.to_unit \in 0..(UnitScale - 1)
        /\ hres.unit = hres.to_unit
        /\ (hkey = <<>> => hres.unit = 6136261)
        /\ (hkey = <<97>> => hres.unit = 6002220)
        /\ (hkey = K_foobar => hres.unit = 4735720)

\* C7 witness: a key with a two-byte character (e-acute) has been hashed by
\* both implementations to 0x1E9DE8C1 mod 10^7.
C7_Witness ==
    hpc = "hashed" /\ hkey = <<233>> /\ hres.to_unit = 3665217 /\ hres.unit = 3665217

\* the coordinates lie in the bounding box of the region
InBox(region, p) ==
    /\ REGION_BOUNDS[region].lat_min <= p.lat /\ p.lat <= REGION_BOUNDS[region].lat_max
    /\ REGION_BOUNDS[region].lon_min <= p.lon /\ p.lon <= REGION_BOUNDS[region].lon_max

\* C8 - _make_lat_lon returns, for a region of REGION_BOUNDS, a latitude and
\* a longitude inside the region's bounding box (a lake_district latitude
\* inside [54.35, 54.70]), and a call with the same region and key as the
\* call before it returns the same coordinates.
C8_LatLonInBox ==
    /\ [](hpc = "latlon" =>
            /\ InBox(hregion, hres)
            /\ (hregion = "lake_district" => hres.lat \in 5435000..5470000))
    /\ [][ (hpc = "latlon" /\ hpc' = "latlon" /\ hregion' = hregion /\ hkey' = hkey)
             => hres' = hres ]_vars

\* C8 witness: the coordinates of "1-Scafell Pike-lake_district" in the
\* lake_district box, (54.59675, -2.81640).
C8_Witness ==
    /\ hpc = "latlon" /\ hregion = "lake_district" /\ hkey = K_Scafell
    /\ hres.lat = 5459675 /\ hres.lon = -281640

-----------------------------------------------------------------------------
(* Properties of the scoring frame and of the scoring harness              *)

\* the days of 2026 on the calendar
Days2026 == { i \in 1..Len(CalendarSample) : CalendarSample[i].y = 2026 }

\* the rows of a table t for one route and one day
RowsOf(t, route_id, date_key) ==
    { k \in 1..Len(t) : t[k].route_id = route_id /\ t[k].date_key = date_key }

\* C9 - Scaffold density: the 2026 scoring frame, v1 and v2, has exactly
\* |routes| x |dates in 2026| rows and exactly one row for every pair of a
\* route of dim_route and a date of 2026, whether or not the route's region
\* has a division on file and whether or not the weather file has a row for
\* the pair: the joins neither drop nor duplicate rows.
C9_ScaffoldDensity ==
    spc \in {"framed", "predicted"} =>
        /\ Len(frame) = Len(dim_route) * Cardinality(Days2026)
        /\ \A r \in 1..Len(dim_route) : \A i \in Days2026 :
               Cardinality(RowsOf(frame, dim_route[r].route_id,
                                  DateKey(CalendarSample[i]))) = 1

\* C9 witness: a v2 frame of three routes, one of a region with no division
\* on file, built with a weather file that covers only some route-days:
\* nine rows.
C9_Witness ==
    /\ spc = "framed" /\ version = "v2" /\ weather.exists
    /\ Len(dim_route) = 3 /\ Len(frame) = 9
    /\ \E k \in 1..Len(frame) : frame[k].region = "pennines"
    /\ \E k \in 1..Len(frame) :
          frame[k].route_id = 1 /\ frame[k].date_key = 20260406
              /\ frame[k].temp_mean = <<910>>

\* C10 - In the forecast every row with is_closed_day = 1 has
\* predicted_bookings_count exactly 0, whatever the raw model output of the
\* row; a row with is_closed_day = 0 keeps its prediction clipped at 0 and
\* rounded to three decimals (within 0.0005 of the clipped raw output, and
\* never negative).
C10_ClosedDayZero ==
    spc = "predicted" =>
        /\ Len(forecast) = Len(frame) /\ Len(raw_preds) = Len(frame)
        /\ \A k \in 1..Len(forecast) :
              /\ forecast[k].is_closed_day = 1
                    => forecast[k].predicted_bookings_count = 0
              /\ forecast[k].is_closed_day = 0
                    => /\ forecast[k].predicted_bookings_count >= 0
                       /\ Abs(10 * forecast[k].predicted_bookings_count
                                 - Max(raw_preds[k], 0)) <= 5

\* C10 witness: a forecast with a closed row whose raw output was positive
\* and is stored as 0, and an open row that keeps a positive prediction.
C10_Witness ==
    /\ spc = "predicted"
    /\ \E k \in 1..Len(forecast) :
          /\ forecast[k].is_closed_day = 1 /\ raw_preds[k] = 23456
          /\ forecast[k].predicted_bookings_count = 0
    /\ \E k \in 1..Len(forecast) :
          /\ forecast[k].is_closed_day = 0 /\ raw_preds[k] = 12346
          /\ forecast[k].predicted_bookings_count = 1235

\* C11 - Every predicted_bookings_count written by the three scoring
\* harnesses (daily v1, daily v2, weekly) is >= 0, whatever the raw model
\* output, negative values included.
C11_NonNegativePredictions ==
    spc = "predicted" =>
        /\ Len(forecast) = Len(raw_preds)
        /\ \A k \in 1..Len(forecast) : forecast[k].predicted_bookings_count >= 0

\* C11 witness: a weekly forecast with a row whose raw output was negative,
\* stored as 0.
C11_Witness ==
    /\ spc = "predicted" /\ version = "weekly"
    /\ \E k \in 1..Len(forecast) :
          raw_preds[k] = -15000 /\ forecast[k].predicted_bookings_count = 0

\* categorical columns the harness of the run encodes
CatColsOf(v) == IF v = "weekly" THEN WEEKLY_CAT_COLS ELSE DAILY_CAT_COLS

\* the value of column c of row k of the encoded scoring frame
EncodedValue(k, c) ==
    IF Len(c) = 1 THEN frame[k][c[1]] ELSE AsInt(frame[k][c[1]] = c[2])

\* C12 - Feature alignment: the matrix passed to the model has one row per
\* scoring row and, in each row, exactly one cell per column of the
\* persisted training list, in the order of the list; the cell of a
\* training column that the scoring frame has is the frame's value, the
\* cell of a training column that the frame lacks is 0, and a scoring
\* column outside the list has no cell.
C12_FeatureAlignment ==
    spc = "predicted" =>
        /\ Len(X) = Len(frame)
        /\ \A k \in 1..Len(X) :
              /\ Len(X[k]) = Len(feature_cols)
              /\ \A j \in 1..Len(feature_cols) :
                    IF feature_cols[j] \in EncodedColumns(frame, CatColsOf(version))
                    THEN X[k][j] = EncodedValue(k, feature_cols[j])
                    ELSE X[k][j] = 0

\* C12 witness: a daily matrix for a training list with region wales and
\* season autumn, which the frame lacks (cells 0), and without region
\* pennines, which the frame has (no cell): nine cells per row.
C12_Witness ==
    /\ spc = "predicted" /\ version = "v1" /\ Len(feature_cols) = 9
    /\ <<"region", "pennines">> \in EncodedColumns(frame, DAILY_CAT_COLS)
    /\ \E k \in 1..Len(X) :
          /\ frame[k].region = "scotland" /\ frame[k].season = "winter"
          /\ Len(X[k]) = 9
          /\ X[k][5] = 0 /\ X[k][6] = 1 /\ X[k][7] = 0 /\ X[k][8] = 0 /\ X[k][9] = 1

-----------------------------------------------------------------------------
(* Properties of the training harnesses                                    *)

\* C13: once the harness has split the training frame, if the 2024 side or
\* the 2025 side is empty the run has raised, no model has been fitted and
\* neither the model file nor the metrics file has been written; and a run
\* that raised never fitted or wrote anything.
C13_TimeSplitFailsFast ==
    /\ ( /\ tpc \notin {"idle", "start"}
         /\ \/ RowsOfYear(tframe.rows, 2024) = <<>>
            \/ RowsOfYear(tframe.rows, 2025) = <<>> )
       => tpc = "error"
    /\ tpc = "error" => ~fitted /\ model_file = <<>> /\ metrics_file = <<>>

\* a weekly run on a frame that has 2024 rows only has raised
C13_Witness ==
    /\ tpc = "error"
    /\ tkind = "weekly"
    /\ tframe.has_year
    /\ RowsOfYear(tframe.rows, 2024) # <<>>
    /\ RowsOfYear(tframe.rows, 2025) = <<>>

-----------------------------------------------------------------------------
(* Properties of the closed-day resolver                                   *)

\* kw occurs in title, ignoring the case of ASCII letters
TitleHasKeyword(title, kw) ==
    \E i \in 1..(Len(title) - Len(kw) + 1) :
        Lower(SubSeq(title, i, i + Len(kw) - 1)) = Lower(kw)

\* the resolved mapping closes date d in division dv
ClosesDate(dv, d) == dv \in DOMAIN closed_map /\ d \in closed_map[dv]

\* the resolved closed-day sets are exactly the events of the table whose
\* title contains a keyword of kws, each in its own division
ClosedExactlyBy(kws) ==
    \A dv \in Range(ResolverDivisions) \cup {"northern-ireland"} :
        \A d \in Range(ResolverDates) :
            ClosesDate(dv, d) <=>
                \E e \in Range(rtable) :
                    /\ e.division = dv
                    /\ e.date = d
                    /\ \E kw \in kws : TitleHasKeyword(e.title, kw)

\* the keywords the closed-day policy names
NamedKeywords ==
    { T_ChristmasDay, T_BoxingDay, T_NewYearsDayAscii, T_NewYearsDayCurly,
      T_GoodFriday, T_EasterMonday }

\* C14 (as stated): the closed-day set of division D contains date d iff an
\* event of division D and date d has a title containing, ignoring case, one
\* of Christmas Day, Boxing Day, New Year's Day, Good Friday, Easter Monday.
C14_ClosedIffNamedKeyword ==
    rpc = "resolved" => ClosedExactlyBy(NamedKeywords)

\* C14 (amended): the closed-day set of division D contains date d iff an
\* event of division D and date d has a title containing, ignoring case, one
\* of Christmas Day, Boxing Day, New Year, Good Friday, Easter Monday; no
\* other title closes a date and no event closes a date of another division.
C14_ClosedIffKeyword ==
    rpc = "resolved" =>
        ClosedExactlyBy({ T_ChristmasDay, T_BoxingDay, T_NewYear,
                          T_GoodFriday, T_EasterMonday })

\* a lower-case "boxing day" of scotland closed its date there and not in
\* england-and-wales, where the same date has a "2nd January" event
C14_Witness ==
    /\ rpc = "resolved"
    /\ \E d \in Range(ResolverDates) :
        /\ Event(d, "scotland", Lower(T_BoxingDay)) \in Range(rtable)
        /\ Event(d, "england-and-wales", T_SecondJanuary) \in Range(rtable)
        /\ ClosesDate("scotland", d)
        /\ ~ClosesDate("england-and-wales", d)

\* C15 (as stated): the resolver never raises, and on an empty or missing
\* bank-holiday table it returns the empty mapping.
C15_ResolverTotal ==
    /\ rpc # "error"
    /\ (rpc = "resolved" /\ bh_file.rows = <<>>) => DOMAIN closed_map = {}

-----------------------------------------------------------------------------
(* Properties of the engine on empty reference data                        *)

\* C16 (as stated): when the route table or the guide table is empty the
\* engine never raises, and the fact table it writes has no bookings.
C16_EmptyReferenceData ==
    (routes = <<>> \/ guides = <<>>) =>
        /\ pc # "error"
        /\ pc = "done" => out_fact = <<>>

-----------------------------------------------------------------------------
(* Properties of the validation layer                                      *)

\* one of the hard-failure conditions holds of the tables validate read
HardFailure ==
    LET fact == v_fact.rows
    IN  \/ v_routes = <<>> \/ v_guides = <<>> \/ v_dates = <<>> \/ fact = <<>>
        \/ \E c \in REQUIRED_FACT_COLS : c \notin v_fact.columns
        \/ \E i, j \in 1..Len(fact) :
               i # j /\ fact[i].booking_id = fact[j].booking_id
        \/ \E i \in 1..Len(fact) :
               \/ \A k \in 1..Len(v_routes) : v_routes[k] # fact[i].route_id
               \/ \A k \in 1..Len(v_guides) : v_guides[k] # fact[i].guide_id
               \/ \A k \in 1..Len(v_dates) : v_dates[k] # fact[i].date_key
               \/ fact[i].party_size <= 0
               \/ fact[i].sales_ex_vat < 0
               \/ fact[i].sales_inc_vat < 0
               \/ ~(3000 <= fact[i].margin_pct /\ fact[i].margin_pct <= 5000)

\* some vat_amount is off sales_ex_vat * 0.20 by more than 0.03
VatDrift ==
    \E i \in 1..Len(v_fact.rows) :
        LET r == v_fact.rows[i]
        IN  Abs(5 * r.vat_amount - r.sales_ex_vat) > 5 * VAT_TOLERANCE

\* some sales_inc_vat is off sales_ex_vat + vat_amount by more than 0.03
IncVatDrift ==
    \E i \in 1..Len(v_fact.rows) :
        LET r == v_fact.rows[i]
        IN  Abs(r.sales_inc_vat - r.sales_ex_vat - r.vat_amount) > VAT_TOLERANCE

Printed(line) == \E k \in 1..Len(vlog) : vlog[k] = line

\* C17: validate always ends; it ends with exit status 1 when a core table
\* is empty, a required fact column is missing, booking_id has a duplicate, a
\* route_id, guide_id or date_key is not in its dimension, a party_size is
\* <= 0, a sales amount is negative or a margin_pct is outside [0.30, 0.50];
\* it runs to completion exactly when none of these holds.
C17_HardFailuresAbort ==
    /\ [](vpc = "exit1" => HardFailure)
    /\ [](vpc = "done" => ~HardFailure)
    /\ <>(vpc \in {"done", "exit1"})

\* a run aborted on a margin_pct of 0.5001 after the earlier checks passed
C17_Witness ==
    /\ vpc = "exit1"
    /\ Printed(<<"OK", "refs">>)
    /\ Printed(<<"FAIL", "margin_pct">>)
    /\ \E i \in 1..Len(v_fact.rows) : v_fact.rows[i].margin_pct = 5001

\* C18: on tables that pass the hard checks, VAT drift never aborts the run:
\* a vat_amount off by more than 0.03 prints a warning and the sales_inc_vat
\* check still runs; a sales_inc_vat off by more than 0.03 prints a warning;
\* the run then completes, and every run on such tables ends in completion.
C18_VatDriftWarnsOnly ==
    /\ [](~HardFailure => vpc # "exit1")
    /\ []((VatDrift /\ vpc \in {"inc", "done"}) => Printed(<<"WARN", "vat">>))
    /\ []((VatDrift /\ vpc = "done") =>
             (Printed(<<"WARN", "inc">>) \/ Printed(<<"OK", "inc">>)))
    /\ []((IncVatDrift /\ vpc = "done") => Printed(<<"WARN", "inc">>))
    /\ [](~HardFailure => <>(vpc = "done"))

\* a run completed with both warnings on a vat_amount that is 8980 pounds off
C18_Witness ==
    /\ vpc = "done"
    /\ \E i \in 1..Len(v_fact.rows) : v_fact.rows[i].vat_amount = 90000000
    /\ Printed(<<"WARN", "vat">>)
    /\ Printed(<<"WARN", "inc">>)

-----------------------------------------------------------------------------
(* Properties of the orchestration                                         *)

\* the stages of a complete run under the flags, in the fixed order
PlannedOrder ==
    <<"DIM: routes", "DIM: guides", "API: bank holidays", "DIM: date",
      "TRANSFORM: bank holiday dimensions">>
    \o (IF flags.skip_weather THEN <<>>
        ELSE <<"API: weather", "TRANSFORM: weather daily">>)
    \o <<"SYNTH: generate fact_bookings", "MODEL: build fact_route_day",
         "QUALITY: validate">>
    \o (IF flags.skip_sql THEN <<>> ELSE <<"SQL: build sqlite">>)
    \o (IF flags.skip_ml THEN <<>> ELSE <<"ML: baseline", "ML: time-split v2">>)

\* the number of stages started so far
Started == (Len(plog) + 1) \div 2

\* C19: the printed lines are start, end, start, end, ... of the planned
\* stages in their fixed order (so a stage starts only after the previous one
\* ended, and a bracketed stage starts only when its flag is false); every
\* started stage that is no longer running has printed its end line, also
\* when it raised; a run that returned has run every planned stage; and once
\* a stage has raised nothing more is started or printed.
C19_OrchestrationOrder ==
    /\ [] /\ Started <= Len(PlannedOrder)
          /\ \A k \in 1..Len(plog) :
                plog[k] = << IF k % 2 = 1 THEN "start" ELSE "end",
                             PlannedOrder[(k + 1) \div 2] >>
          /\ (ppc = "in_stage") <=> (Len(plog) % 2 = 1)
          /\ ppc = "returned" => Started = Len(PlannedOrder)
    /\ [][ppc = "raised" => (plog' = plog /\ ppc' = "raised")]_vars

\* with the weather stages skipped, booking generation raised after the
\* bank-holiday stage ended, and its end line was printed
C19_Witness ==
    /\ flags.skip_weather
    /\ ppc = "raised"
    /\ Len(plog) = 12
    /\ plog[10] = <<"end", "TRANSFORM: bank holiday dimensions">>
    /\ plog[11] = <<"start", "SYNTH: generate fact_bookings">>
    /\ plog[12] = <<"end", "SYNTH: generate fact_bookings">>

-----------------------------------------------------------------------------
(* Properties of the bank-holiday dimension                                *)

\* C20 (as stated): two builds of the dimension from the same raw JSON, in
\* the same process or in different processes, give every event the same
\* bank_holiday_id.
C20_StableBankHolidayId ==
    Len(dims) = 2 =>
        \A i \in 1..Len(dims[1].rows) :
            dims[1].rows[i].bank_holiday_id = dims[2].rows[i].bank_holiday_id

-----------------------------------------------------------------------------
(* Properties of the route dimension                                       *)

\* the seed routes whose region, lower-cased and stripped, has no bounding box
Unmapped ==
    { i \in 1..Len(routes_json.routes) :
        \A r \in DOMAIN REGION_BOUNDS :
            RegionSpelling[r] # NormRegion(routes_json.routes[i].region) }

-----------------------------------------------------------------------------
(* Properties of the rollups                                               *)

\* the bookings of fact_bookings in the group of route-day row d
BookingsOfGroup(d) ==
    { i \in 1..Len(fact_bookings) :
        /\ fact_bookings[i].date_key = d.date_key
        /\ fact_bookings[i].route_id = d.route_id
        /\ fact_bookings[i].region = d.region }

\* C23: once build_route_day has run, every (date_key, route_id, region)
\* with a booking has exactly one route-day row, every route-day row is the
\* row of a group with a booking, its bookings_count is the size of the
\* group, and the counts add up to the number of bookings.
C23_RouteDaySparseRollup ==
    ru_pc \in {"day", "week"} =>
        /\ \A b \in 1..Len(fact_bookings) :
              Cardinality({ i \in 1..Len(route_day) :
                              b \in BookingsOfGroup(route_day[i]) }) = 1
        /\ \A i \in 1..Len(route_day) :
              /\ route_day[i].bookings_count = Cardinality(BookingsOfGroup(route_day[i]))
              /\ route_day[i].bookings_count >= 1
        /\ SumOf(route_day, "bookings_count") = Len(fact_bookings)

\* a day with two bookings of one route and a route missing from dim_route
C23_Witness ==
    /\ ru_pc = "day"
    /\ \E i \in 1..Len(route_day) : route_day[i].bookings_count = 2
    /\ \E i \in 1..Len(route_day) : route_day[i].difficulty = NaN

\* the row of calendar dd for a date_key
CalOf(dd, date_key) == dd[CHOOSE i \in 1..Len(dd) : dd[i].date_key = date_key]

\* the route-day rows the calendar dd puts into route-week row w
DaysOfWeekRow(dd, w) ==
    SelectSeq(route_day,
              LAMBDA d : /\ d.route_id = w.route_id
                         /\ CalOf(dd, d.date_key).iso_year = w.iso_year
                         /\ CalOf(dd, d.date_key).iso_week = w.iso_week)

RECURSIVE CalFlagDays(_, _, _)
CalFlagDays(dd, days, c) ==
    IF days = <<>> THEN 0
    ELSE AsInt(CalOf(dd, Head(days).date_key)[c]) + CalFlagDays(dd, Tail(days), c)

\* C22: every route-week row counts the bank-holiday days and weekend days
\* of its week by the flags of the calendar dimension read by
\* build_route_week, and is grouped by that calendar's ISO year and week,
\* whatever the route-day rows carry in the same columns.
C22_CalendarValueWins ==
    ru_pc = "week" =>
        \A i \in 1..Len(route_week) :
            LET w == route_week[i]
                days == DaysOfWeekRow(dd_week, w)
            IN  /\ days # <<>>
                /\ w.bookings_count = SumOf(days, "bookings_count")
                /\ w.bank_holiday_days_any = CalFlagDays(dd_week, days, "is_bank_holiday_any")
                /\ w.weekend_days = CalFlagDays(dd_week, days, "is_weekend")

\* a route-day row whose bank-holiday flag differs from the calendar's went
\* into a route-week row
C22_Witness ==
    /\ ru_pc = "week"
    /\ \E i \in 1..Len(route_week), j \in 1..Len(route_day) :
          /\ route_day[j].route_id = route_week[i].route_id
          /\ route_day[j].iso_year = route_week[i].iso_year
          /\ route_day[j].iso_week = route_week[i].iso_week
          /\ route_day[j].is_bank_holiday_any
                 # CalOf(dd_week, route_day[j].date_key).is_bank_holiday_any

\* C29: for every route the bookings of the route-week table add up to the
\* bookings of the route-day table.
C29_WeeklyConservesBookings ==
    ru_pc = "week" =>
        \A r \in 1..2 :
            SumOf(SelectSeq(route_week, LAMBDA w : w.route_id = r), "bookings_count")
                = SumOf(SelectSeq(route_day, LAMBDA d : d.route_id = r), "bookings_count")

-----------------------------------------------------------------------------
(* Properties of the weather enrichment                                    *)

\* the rows of the weather file for the route-day of frame row r
RealWeather(r) ==
    SelectSeq(wx_file.rows,
              LAMBDA w : w.route_id = r.route_id /\ w.date_key = r.date_key)

\* C24: after the enrichment every row has a value in each of the eight
\* weather columns; a row whose route-day is not in the weather file has the
\* synthetic weather of its (route_id, date_key, season), and a row whose
\* route-day is in the file has the file's values in all eight columns.
C24_WeatherComplete ==
    wx_pc = "done" =>
        /\ Len(wx_out) = Len(wx_df)
        /\ \A k \in 1..Len(wx_out) :
              LET r == wx_out[k]
                  real == RealWeather(wx_df[k])
              IN  /\ \A c \in WEATHER_COLS : r[c] # <<>>
                  /\ real = <<>> =>
                        \A c \in WEATHER_COLS :
                            r[c] = SyntheticWeather(r.route_id, r.date_key, r.season)[c]
                  /\ real # <<>> => \A c \in WEATHER_COLS : r[c] = real[1][c]

-----------------------------------------------------------------------------
(* Properties of the party size                                            *)

\* C25: the party size drawn for a booking is an integer from 1 to 6,
\* whatever the difficulty of the route.
C25_PartySizeRange ==
    ps_pc = "done" => ps_party \in 1..6

\* a route of a difficulty outside the four known ones gets a party of one
C25_Witness ==
    /\ ps_pc = "done"
    /\ ps_difficulty = "extreme"
    /\ ps_u = 0
    /\ ps_party = 1

-----------------------------------------------------------------------------
(* Properties of the booking intensity                                     *)

\* an uplift of a table, 1.0 (twenty twentieths) for a key it does not have
UpliftOr1(table, key) == IF key \in DOMAIN table THEN table[key] ELSE 20

\* the division whose bank holidays and closed days apply to a region
OwnDivision(region) ==
    IF \E x \in Range(RegionDivision) : x.region = region
    THEN RegionToDiv[region]
    ELSE "england-and-wales"

\* dt is a bank holiday of the division on which its routes are open
OpenHoliday(division, dt) ==
    /\ \E e \in Range(bh) : e.division = division /\ e.date = dt
    /\ ~ \E e \in Range(bh) :
            /\ e.division = division /\ e.date = dt
            /\ \E k \in 1..Len(CLOSED_HOLIDAY_KEYWORDS) :
                  ContainsNoCase(e.title, CLOSED_HOLIDAY_KEYWORDS[k])

\* 0.55 x region x season x difficulty x weekend x open holiday, clamped to
\* [0.05, 3.0], in units of 1/20^6
ClaimedMean(rt, d) ==
    LET mu == 11 * UpliftOr1(REGION_UPLIFT, rt.region)
                 * UpliftOr1(SEASON_UPLIFT, d.season)
                 * UpliftOr1(DIFFICULTY_UPLIFT, rt.difficulty)
                 * (IF d.day_name \in {"Saturday", "Sunday"} THEN 24 ELSE 20)
                 * (IF OpenHoliday(OwnDivision(rt.region), d.date) THEN 28 ELSE 20)
    IN  IF mu < 3200000 THEN 3200000 ELSE IF mu > 192000000 THEN 192000000 ELSE mu

\* C26: every Poisson draw of the engine is made at a route-day, with the
\* mean 0.55 x region uplift x season uplift x difficulty uplift x 1.20 on a
\* weekend x 1.40 on a bank holiday of the route's own division that is not
\* a closed day of that division, clamped to [0.05, 3.0]; a region, season
\* or difficulty outside the tables counts 1.0.
C26_BookingIntensity ==
    [][ \A k \in pos..(pos' - 1) :
            stream'[k].fn = "poisson" =>
                /\ AtRouteDay
                /\ stream'[k].a = ClaimedMean(routes[ri], dates[di]) ]_vars

\* the Scottish route drew its bookings of 2nd January 2025, an open bank
\* holiday of scotland only, and the Lake District route those of a Saturday
C26_Witness ==
    /\ pc = "done"
    /\ routes = RoutesUK
    /\ \E k \in 1..Len(stream) :
          /\ stream[k].fn = "poisson"
          /\ stream[k].a = 11 * 18 * 26 * 18 * 20 * 28
    /\ \E k \in 1..Len(stream) :
          /\ stream[k].fn = "poisson"
          /\ stream[k].a = 11 * 27 * 17 * 20 * 24 * 20

-----------------------------------------------------------------------------
(* Properties of the feature frames on the engine's output                 *)

\* the region has no row in dim_region_division
UnmappedRegion(region) == ~ \E x \in Range(RegionDivision) : x.region = region

\* the day of CalendarSample with a date key
DateOfKey(date_key) == CHOOSE dt \in Range(CalendarSample) : DateKey(dt) = date_key

\* dt is a bank holiday of england-and-wales
EnglandWalesHoliday(dt) ==
    \E e \in Range(bh) : e.division = "england-and-wales" /\ e.date = dt

\* dt is a closed day of england-and-wales
EnglandWalesClosed(dt) ==
    \E e \in Range(bh) :
        /\ e.division = "england-and-wales" /\ e.date = dt
        /\ \E k \in 1..Len(CLOSED_HOLIDAY_KEYWORDS) :
              ContainsNoCase(e.title, CLOSED_HOLIDAY_KEYWORDS[k])

\* a frame row of an unmapped region carries the flags of england-and-wales
FrameRowDefaults(r) ==
    UnmappedRegion(r.region) =>
        /\ r.is_bank_holiday_division = AsInt(EnglandWalesHoliday(DateOfKey(r.date_key)))
        /\ r.is_closed_day = AsInt(EnglandWalesClosed(DateOfKey(r.date_key)))

\* C27: for a route whose region is not in the region-to-division table the
\* engine, the training frame and the scoring frame all use the bank
\* holidays and closed days of england-and-wales, and no run stops with an
\* error.
C27_DivisionDefault ==
    /\ pc # "error"
    /\ \A i \in 1..Len(rows) :
          UnmappedRegion(rows[i].region) =>
              /\ rows[i].holiday_division = "england-and-wales"
              /\ rows[i].is_bank_holiday = AsInt(EnglandWalesHoliday(rows[i].booking_date))
              /\ ~EnglandWalesClosed(rows[i].booking_date)
    /\ \A k \in 1..Len(ft_train) : FrameRowDefaults(ft_train[k])
    /\ \A k \in 1..Len(ft_score) : FrameRowDefaults(ft_score[k])

\* a route of an unmapped region was booked, aggregated and framed, and its
\* scoring frame has a closed day of england-and-wales
C27_Witness ==
    /\ ft_pc = "score"
    /\ \E k \in 1..Len(ft_train) : UnmappedRegion(ft_train[k].region)
    /\ \E k \in 1..Len(ft_score) :
          UnmappedRegion(ft_score[k].region) /\ ft_score[k].is_closed_day = 1

\* C30: every row of the training frame built from the engine's output, with
\* the bank-holiday and region-to-division tables the engine read, has
\* is_closed_day = 0.
C30_NoClosedDayInTraining ==
    \A k \in 1..Len(ft_train) : ft_train[k].is_closed_day = 0

\* the Scottish route has a training row on Easter Monday 2024, a closed day
\* of england-and-wales only, and one on an open bank holiday of scotland
C30_Witness ==
    /\ ft_pc = "train"
    /\ \E k \in 1..Len(ft_train) :
          /\ ft_train[k].region = "scotland"
          /\ ft_train[k].date_key = 20240401
    /\ \E k \in 1..Len(ft_train) :
          /\ ft_train[k].region = "scotland"
          /\ ft_train[k].is_bank_holiday_division = 1

-----------------------------------------------------------------------------
(* Properties of the files of a pipeline run                               *)

\* C28: in a run of the orchestrator with no stage skipped, started with
\* nothing but the seed files, every configuration name is resolved, every
\* stage finds the files it reads and looks for, and no stage fails.
C28_InputsProducedBeforeUse ==
    (pf_cmd.kind = "pipeline" /\ pf_cmd.flags = NoFlags /\ pf_start = SEED_FILES) =>
        /\ pf_pc \notin {"import_error", "failed"}
        /\ (pf_pc = "running" /\ pf_todo # <<>>) =>
              (StageReads(Head(pf_todo)) \cup StageLooksFor(Head(pf_todo)))
                  \subseteq pf_files

====
